---------------------------- MODULE Spec2Model ----------------------------
(***************************************************************************)
(* Weekly AI digest bot: subscriber registry, report cache, title history, *)
(* digest orchestration (daily_ai_news.main), Telegram fan-out and the     *)
(* entry points of bot.py and scheduler.py.                                *)
(***************************************************************************)
EXTENDS Integers, Sequences, FiniteSets, TLC

(***************************************************************************)
(* Bounds of the model                                                     *)
(***************************************************************************)
MaxTextLen == 5
MaxChunkLen == 3
NumRecipients == 3
DefaultMaxLen == 4
MaxRuns == 2
MaxSubscribers == 2
MaxBotSubscribers == 1
MaxTail == 2
MaxHistory == 2
MaxTitles == 82
MaxBoots == 2
NumSources == 3

(***************************************************************************)
(* Text: a sequence of characters; NL is the line break                    *)
(***************************************************************************)
NL == "\n"
Chars == {"a", NL}

RECURSIVE TextsOfLen(_)
TextsOfLen(n) ==
    IF n = 0 THEN {<<>>}
    ELSE {Append(t, ch) : t \in TextsOfLen(n - 1), ch \in Chars}

Texts == UNION {TextsOfLen(n) : n \in 0..MaxTextLen}

\* str.split("\n"): the lines of a text, always at least one
RECURSIVE SplitAcc(_, _, _)
SplitAcc(rest, cur, acc) ==
    IF rest = <<>> THEN Append(acc, cur)
    ELSE IF Head(rest) = NL
         THEN SplitAcc(Tail(rest), <<>>, Append(acc, cur))
         ELSE SplitAcc(Tail(rest), Append(cur, Head(rest)), acc)

SplitLines(text) == SplitAcc(text, <<>>, <<>>)

\* sep.join(parts)
RECURSIVE Join(_, _)
Join(parts, sep) ==
    IF parts = <<>> THEN <<>>
    ELSE IF Len(parts) = 1 THEN Head(parts)
    ELSE Head(parts) \o sep \o Join(Tail(parts), sep)

RECURSIVE Flatten(_)
Flatten(seqs) ==
    IF seqs = <<>> THEN <<>> ELSE Head(seqs) \o Flatten(Tail(seqs))

(***************************************************************************)
(* _split_chunks: the loop over the lines, then the trailing flush         *)
(***************************************************************************)
RECURSIVE ChunkLoopDropsLine(_, _, _, _)
ChunkLoopDropsLine(lines, chunks, buf, max_len) ==
    IF lines = <<>> THEN (IF buf # <<>> THEN Append(chunks, buf) ELSE chunks)
    ELSE LET line == Head(lines) IN
         IF Len(buf) + Len(line) + 1 > max_len
         THEN ChunkLoopDropsLine(Tail(lines), Append(chunks, buf), <<>>, max_len)
         ELSE ChunkLoopDropsLine(Tail(lines), chunks,
                  IF buf # <<>> THEN buf \o <<NL>> \o line ELSE line, max_len)

RECURSIVE ChunkLoop(_, _, _, _)
ChunkLoop(lines, chunks, buf, max_len) ==
    IF lines = <<>> THEN (IF buf # <<>> THEN Append(chunks, buf) ELSE chunks)
    ELSE LET line == Head(lines) IN
         IF Len(buf) + Len(line) + 1 > max_len
         THEN ChunkLoop(Tail(lines), Append(chunks, buf), line, max_len)
         ELSE ChunkLoop(Tail(lines), chunks,
                  IF buf # <<>> THEN buf \o <<NL>> \o line ELSE line, max_len)

_split_chunks(text, max_len) ==
    IF Len(text) <= max_len THEN <<text>>
    ELSE ChunkLoop(SplitLines(text), <<>>, <<>>, max_len)


(***************************************************************************)
(* Titles and the duplicate test                                           *)
(***************************************************************************)
Threshold == 10

Lower(ch) == CASE ch = "A" -> "a" [] ch = "I" -> "i" [] OTHER -> ch

LowerText(t) == [i \in 1..Len(t) |-> Lower(t[i])]

\* s[:] (no cut)
PrefixWhole(s, n) == s

\* s[:n]
Prefix(s, n) == SubSeq(s, 1, IF n < Len(s) THEN n ELSE Len(s))

\* s in p
IsSubstring(s, p) ==
    \E i \in 0..(Len(p) - Len(s)) : SubSeq(p, i + 1, i + Len(s)) = s

\* the history titles compared as they are stored
_is_duplicate_cased(title, prev, threshold) ==
    LET t == Prefix(LowerText(title), threshold)
    IN  \E k \in 1..Len(prev) : t # <<>> /\ IsSubstring(t, prev[k])

_is_duplicate(title, prev, threshold) ==
    LET t == Prefix(LowerText(title), threshold)
    IN  \E k \in 1..Len(prev) : t # <<>> /\ IsSubstring(t, LowerText(prev[k]))

\* nothing is filtered
dedup_keeps_all(items, prev) == items

\* main.dedup: the items whose title is no duplicate, in order
dedup(items, prev) ==
    SelectSeq(items, LAMBDA t : ~_is_duplicate(t, prev, Threshold))

TitleAI == <<"A", "I">>
TitleAiNews == <<"a", "i", "x">>

\* what the sources can return in one run (titles of the items, in source order)
FetchChoices == {<<>>, <<TitleAiNews, TitleAI>>}

\* what generate_report can return (msg.content[0].text.strip())
ReportShort == <<"a">>
ReportLong == <<"a", "a", "a", NL, "a", "a", "a", NL, "a", "a", "a">>
ReportTexts == {<<>>, ReportShort, ReportLong}

(***************************************************************************)
(* Files of DATA_DIR: a file is absent, truncated by an open(.., "w") that *)
(* has not written yet, corrupt (no JSON), or holds a value                *)
(***************************************************************************)
NoFile(default) == [st |-> "absent", data |-> default]
Holding(d) == [st |-> "ok", data |-> d]

\* open(path, "w"): the file exists and is empty
OpenW(default) == [st |-> "truncated", data |-> default]

\* json.dump + close. A writer that finds its file no longer empty shares it
\* with another writer that wrote since: the bytes of the two may mix
DumpResults(file, d, default) ==
    IF file.st = "truncated" THEN {Holding(d)}
    ELSE {Holding(d), [st |-> "corrupt", data |-> default]}

\* a file that exists and cannot be parsed; d is what a reader that paid no
\* attention to the damage would make of it
Unreadable(d) == [st |-> "corrupt", data |-> d]

\* the file is taken at face value whenever it exists
LoadUnchecked(file, default) ==
    IF file.st = "absent" THEN default ELSE file.data

\* load: exists() is false, or json.load raises -> the default
Load(file, default) == IF file.st = "ok" THEN file.data ELSE default

NoCache == [generated_at |-> 0, report |-> <<>>]
NoTitles == <<>>
NoRegistry == <<>>

(***************************************************************************)
(* version.json (the deployed descriptor) and last_version.txt (the marker)*)
(***************************************************************************)
V1 == <<"1", ".", "0">>
V2 == <<"1", ".", "1">>

\* _load_version_info returns {} when the file cannot be read or parsed
NoInfo == [empty |-> TRUE, version |-> <<>>]

\* a descriptor holding some keys; version is info.get("version", "")
Info(version) == [empty |-> FALSE, version |-> version]

NoMarker == <<>>

\* _on_startup has not run
NoStartup == [last |-> <<>>, current |-> <<>>, chat_ids |-> <<>>]

\* the process has not run before
NoPrior == [boots |-> 0, announced |-> {}]

\* str.strip(): line breaks (white space) at both ends removed
RECURSIVE LStrip(_)
LStrip(s) == IF s # <<>> /\ Head(s) = NL THEN LStrip(Tail(s)) ELSE s

RECURSIVE RStrip(_)
RStrip(s) ==
    IF s # <<>> /\ s[Len(s)] = NL THEN RStrip(SubSeq(s, 1, Len(s) - 1)) ELSE s

Strip(s) == LStrip(RStrip(s))

(***************************************************************************)
(* State                                                                   *)
(***************************************************************************)
VARIABLES
    pc,          \* position of each execution context
    caller,      \* who called send_telegram in each context
    report,      \* text handed to send_telegram / produced by generate_report
    target,      \* target_ids of the send in each context
    max_len,     \* max_len argument of send_telegram
    chunks,      \* send_telegram: chunks
    results,     \* send_telegram: results, the "ok" of each res in order
    attempts,    \* the (chat_id, chunk number) of each _send_one_chunk call made
    fetched,     \* main: titles of the items the sources returned, in order
    responses,   \* main: what each source answered to this run, source by source
    bySource,    \* main: raw, the list kept for each source fetched so far
    raw,         \* main: titles of raw.values() after dedup, in order
    outcome,     \* how the last call of main ended in each context
    wrote,       \* the tables the current run of main has written
    emails,      \* what the current run did on the email channel
    summary,     \* main: the (ok, len(results)) of its closing line, if printed
    gens,        \* calls of generate_report made by the current trigger
    genCalls,    \* number of calls of generate_report so far
    lastBody,    \* the text the last generate_report call that returned gave
    cacheFile,   \* REPORT_CACHE_FILE
    titlesFile,  \* PREV_TITLES_FILE
    regFile,     \* SUBSCRIBERS_FILE
    data,        \* subscribe/unsubscribe: data
    op,          \* the registry operation in progress in each context
    ret,         \* return value of the last registry operation
    lastOp,      \* per chat id, the last registry operation applied to it
    env,         \* environment and command line of the process
    exitStatus,  \* exit status of the process of each context
    runs,        \* number of triggers (scheduled runs, previews) started
    versionFile, \* VERSION_FILE, the descriptor deployed with the code
    markerFile,  \* LAST_VERSION_FILE
    startup,     \* _on_startup: its locals last, current, chat_ids
    bcast,       \* _on_startup: the send_message calls made, in order
    prior,       \* the earlier lifetimes of the process: how many, and the
                 \* version the last of them sent a notice for before it stopped
    slots,       \* scheduler.py: the SCHEDULE_* variables of the environment
    triggers,    \* scheduler.py: the weekly jobs registered with schedule
    notices      \* scheduler.py: the errors and warnings setup_schedule printed

sendVars == <<caller, report, target, max_len, chunks, results, attempts>>
srcVars == <<responses, bySource>>
mainVars == <<fetched, srcVars, raw, outcome, wrote, emails, summary, gens, genCalls, lastBody>>
fileVars == <<cacheFile, titlesFile>>
regVars == <<regFile, data, op, ret, lastOp>>
schedVars == <<slots, triggers, notices>>
procVars == <<env, exitStatus, runs, schedVars>>
verVars == <<versionFile, markerFile, startup, bcast, prior>>

vars == <<pc, sendVars, mainVars, fileVars, regVars, procVars, verVars>>

Ctx == {"cli", "runsched", "runbot", "sched", "loop", "w1", "w2"}

\* str(chat_id) of the chat ids 1..NumRecipients
Str(i) == CASE i = 1 -> "1" [] i = 2 -> "2" [] i = 3 -> "3" [] i = 4 -> "4"
            [] OTHER -> "5"

\* the list of the first n chat ids
IdList(n) == [i \in 1..n |-> Str(i)]

(***************************************************************************)
(* subscribers.py: the registry is the JSON object of SUBSCRIBERS_FILE,    *)
(* modelled as the sequence of its entries in insertion order              *)
(***************************************************************************)
Names == {"ann", "bob"}

HasKey(d, key) == \E i \in 1..Len(d) : d[i].chat_id = key

\* list(d.keys())
Keys(d) == [i \in 1..Len(d) |-> d[i].chat_id]

WithoutKeyKeepsAll(d, key) == d

\* the new entry takes the place of the whole object
WithEntryAlone(d, key, username) == <<[chat_id |-> key, username |-> username]>>

\* data[key] = {...}
WithEntry(d, key, username) == Append(d, [chat_id |-> key, username |-> username])

\* del data[key]
WithoutKey(d, key) == SelectSeq(d, LAMBDA e : e.chat_id # key)

_load == Load(regFile, NoRegistry)

\* every chat passes for a subscriber
is_subscribed_anyone(chat_id) == TRUE

is_subscribed(chat_id) == HasKey(_load, Str(chat_id))

\* the chat ids of the environment
get_chat_ids_configured == env.chat_ids

get_chat_ids == Keys(_load)

get_count == Len(_load)

(***************************************************************************)
(* send_telegram                                                           *)
(***************************************************************************)
Last(s) == s[Len(s)]

Range(s) == {s[k] : k \in 1..Len(s)}

\* for chat_id in ids: for i, chunk in enumerate(chunks, 1): the loop is over
SendLoopStopsOnFailure(c) ==
    \/ Len(results[c]) = Len(target[c]) * Len(chunks[c])
    \/ (results[c] # <<>> /\ ~Last(results[c]))

SendLoopDone(c) ==
    Len(results[c]) = Len(target[c]) * Len(chunks[c])

\* the recipients take turns: chunk after chunk, each chunk to every recipient
NextChatIdByChunk(c) == target[c][(Len(results[c]) % Len(target[c])) + 1]

\* the chat_id and the chunk number (from 1) of the next _send_one_chunk call
NextChatId(c) == target[c][(Len(results[c]) \div Len(chunks[c])) + 1]
NextChunkNo(c) == (Len(results[c]) % Len(chunks[c])) + 1

SendTelegramBegin(c) ==
    /\ pc[c] = "send_telegram"
    /\ chunks' = [chunks EXCEPT ![c] = _split_chunks(report[c], max_len[c])]
    /\ results' = [results EXCEPT ![c] = <<>>]
    /\ attempts' = [attempts EXCEPT ![c] = <<>>]
    /\ pc' = [pc EXCEPT ![c] = "send_loop"]
    /\ UNCHANGED <<caller, report, target, max_len>>
    /\ UNCHANGED <<mainVars, fileVars, regVars, procVars, verVars>>

\* _send_one_chunk: every failure is caught and becomes {"ok": False}
SendOneChunk(c) ==
    /\ pc[c] = "send_loop"
    /\ ~SendLoopDone(c)
    /\ \E ok \in BOOLEAN :
          /\ results' = [results EXCEPT ![c] = Append(@, ok)]
          /\ attempts' = [attempts EXCEPT ![c] =
                            Append(@, <<NextChatId(c), NextChunkNo(c)>>)]
    /\ UNCHANGED <<pc, caller, report, target, max_len, chunks>>
    /\ UNCHANGED <<mainVars, fileVars, regVars, procVars, verVars>>

SendTelegramReturn(c) ==
    /\ pc[c] = "send_loop"
    /\ SendLoopDone(c)
    /\ pc' = [pc EXCEPT ![c] = CASE caller[c] = "cli" -> "returned"
                                 [] caller[c] = "main" -> "sent"
                                 [] OTHER -> "sent_cached"]
    /\ UNCHANGED <<sendVars, mainVars, fileVars, regVars, procVars, verVars>>

(***************************************************************************)
(* daily_ai_news.main(override_chat_ids)                                   *)
(***************************************************************************)
TitlesCap == 80

\* scheduler.job calls main() with no override: the target is CHAT_IDS
NoOverride(c) == c = "runsched"

\* the "missing" list of main is not empty
MissingConfig(c) ==
    \/ ~env.anthropic_key
    \/ ~env.bot_token
    \/ (NoOverride(c) /\ env.chat_ids = <<>>)

\* sum(1 for r in results if r.get("ok"))
OkCount(rs) == Cardinality({k \in 1..Len(rs) : rs[k]})

\* the history is never read
load_prev_titles_none == NoTitles

load_prev_titles == Load(titlesFile, NoTitles)

\* configuration check, prev_titles = load_prev_titles(), the fetches and dedup
MainStart(c) ==
    /\ pc[c] = "main"
    /\ wrote' = [wrote EXCEPT ![c] = {}]
    /\ emails' = [emails EXCEPT ![c] = "none"]
    /\ summary' = [summary EXCEPT ![c] = <<>>]
    /\ chunks' = [chunks EXCEPT ![c] = <<>>]
    /\ results' = [results EXCEPT ![c] = <<>>]
    /\ attempts' = [attempts EXCEPT ![c] = <<>>]
    /\ target' = [target EXCEPT ![c] = IF NoOverride(c) THEN env.chat_ids ELSE @]
    /\ IF MissingConfig(c)
       THEN /\ outcome' = [outcome EXCEPT ![c] = "exit1"]
            /\ pc' = [pc EXCEPT ![c] = "main_end"]
            /\ UNCHANGED <<raw, fetched>>
       ELSE /\ outcome' = [outcome EXCEPT ![c] = "running"]
            /\ \E items \in FetchChoices :
                  /\ fetched' = [fetched EXCEPT ![c] = items]
                  /\ raw' = [raw EXCEPT ![c] = dedup(items, load_prev_titles)]
            /\ pc' = [pc EXCEPT ![c] = "generate_report"]
    /\ UNCHANGED <<caller, report, max_len, gens, genCalls, lastBody, srcVars>>
    /\ UNCHANGED <<fileVars, regVars, procVars, verVars>>

\* main, the dedup step alone: prev_titles = load_prev_titles() and
\* dedup(items) of the items fetched
DedupFetched(c) ==
    /\ pc[c] = "dedup"
    /\ raw' = [raw EXCEPT ![c] = dedup(fetched[c], load_prev_titles)]
    /\ pc' = [pc EXCEPT ![c] = "deduped"]
    /\ UNCHANGED <<fetched, srcVars, outcome, wrote, emails, summary, gens, genCalls, lastBody>>
    /\ UNCHANGED <<sendVars, fileVars, regVars, procVars, verVars>>

\* what a parser that paid no attention to the failure would make of the answer
SourceItemsUnchecked(resp) == resp.items

\* fetch_reddit / fetch_rss: the items of one source. No answer (http_get
\* returns None) and an answer that cannot be parsed give []; a Reddit listing
\* that breaks off keeps the posts read before the error
SourceItems(resp) ==
    IF resp.kind \in {"unreachable", "malformed"} THEN <<>> ELSE resp.items

\* main up to the first fetch: the configuration check passes, the locals are
\* fresh, and the sources will answer l to this run
MainAsk(c, l) ==
    /\ pc[c] = "main"
    /\ ~MissingConfig(c)
    /\ wrote' = [wrote EXCEPT ![c] = {}]
    /\ emails' = [emails EXCEPT ![c] = "none"]
    /\ summary' = [summary EXCEPT ![c] = <<>>]
    /\ chunks' = [chunks EXCEPT ![c] = <<>>]
    /\ results' = [results EXCEPT ![c] = <<>>]
    /\ attempts' = [attempts EXCEPT ![c] = <<>>]
    /\ target' = [target EXCEPT ![c] = IF NoOverride(c) THEN env.chat_ids ELSE @]
    /\ outcome' = [outcome EXCEPT ![c] = "running"]
    /\ responses' = [responses EXCEPT ![c] = l]
    /\ bySource' = [bySource EXCEPT ![c] = <<>>]
    /\ pc' = [pc EXCEPT ![c] = "collect"]
    /\ UNCHANGED <<raw, fetched, caller, report, max_len, gens, genCalls, lastBody>>
    /\ UNCHANGED <<fileVars, regVars, procVars, verVars>>

\* main, the sources one by one: raw[name] = dedup(fetch(...))
FetchSource(c) ==
    /\ pc[c] = "collect"
    /\ Len(bySource[c]) < Len(responses[c])
    /\ bySource' = [bySource EXCEPT ![c] =
                       Append(@, dedup(SourceItems(responses[c][Len(@) + 1]),
                                       load_prev_titles))]
    /\ UNCHANGED <<pc, responses, fetched, raw, outcome, wrote, emails, summary>>
    /\ UNCHANGED <<gens, genCalls, lastBody>>
    /\ UNCHANGED <<sendVars, fileVars, regVars, procVars, verVars>>

\* every source was asked: total = sum(len(v) for v in raw.values())
CollectDone(c) ==
    /\ pc[c] = "collect"
    /\ Len(bySource[c]) = Len(responses[c])
    /\ fetched' = [fetched EXCEPT ![c] =
                      Flatten([i \in 1..Len(responses[c]) |->
                                  SourceItems(responses[c][i])])]
    /\ raw' = [raw EXCEPT ![c] = Flatten(bySource[c])]
    /\ pc' = [pc EXCEPT ![c] = "generate_report"]
    /\ UNCHANGED <<srcVars, outcome, wrote, emails, summary, gens, genCalls, lastBody>>
    /\ UNCHANGED <<sendVars, fileVars, regVars, procVars, verVars>>

\* generate_report: the request to the API is sent
GenerateCall(c) ==
    /\ pc[c] = "generate_report"
    /\ genCalls' = genCalls + 1
    /\ gens' = [gens EXCEPT ![c] = @ + 1]
    /\ pc' = [pc EXCEPT ![c] = "generating"]
    /\ UNCHANGED <<raw, fetched, srcVars, outcome, wrote, emails, summary, lastBody>>
    /\ UNCHANGED <<sendVars, fileVars, regVars, procVars, verVars>>

\* generate_report returns the text
GenerateOk(c) ==
    /\ pc[c] = "generating"
    /\ \E text \in ReportTexts :
          /\ report' = [report EXCEPT ![c] = text]
          /\ lastBody' = [done |-> TRUE, body |-> text]
    /\ pc' = [pc EXCEPT ![c] = "save_report_cache"]
    /\ UNCHANGED <<caller, target, max_len, chunks, results, attempts>>
    /\ UNCHANGED <<raw, fetched, srcVars, outcome, wrote, emails, summary, gens, genCalls>>
    /\ UNCHANGED <<fileVars, regVars, procVars, verVars>>

\* the failure is noted and the run goes on with the report it has
GenerateFailContinues(c) ==
    /\ pc[c] = "generating"
    /\ outcome' = [outcome EXCEPT ![c] = "raised"]
    /\ pc' = [pc EXCEPT ![c] = "save_report_cache"]
    /\ UNCHANGED <<raw, fetched, srcVars, wrote, emails, summary, gens, genCalls, lastBody>>
    /\ UNCHANGED <<sendVars, fileVars, regVars, procVars, verVars>>

\* generate_report raises (API error, timeout): main does not catch it
GenerateFail(c) ==
    /\ pc[c] = "generating"
    /\ outcome' = [outcome EXCEPT ![c] = "raised"]
    /\ pc' = [pc EXCEPT ![c] = "main_end"]
    /\ UNCHANGED <<raw, fetched, srcVars, wrote, emails, summary, gens, genCalls, lastBody>>
    /\ UNCHANGED <<sendVars, fileVars, regVars, procVars, verVars>>

\* save_report_cache: open(REPORT_CACHE_FILE, "w")
SaveCacheOpen(c) ==
    /\ pc[c] = "save_report_cache"
    /\ cacheFile' = OpenW(NoCache)
    /\ wrote' = [wrote EXCEPT ![c] = @ \cup {"cache"}]
    /\ pc' = [pc EXCEPT ![c] = "cache_dump"]
    /\ UNCHANGED <<raw, fetched, srcVars, outcome, emails, summary, gens, genCalls, lastBody>>
    /\ UNCHANGED <<titlesFile, sendVars, regVars, procVars, verVars>>

\* save_report_cache: json.dump and close
SaveCacheDump(c) ==
    /\ pc[c] = "cache_dump"
    /\ cacheFile' \in DumpResults(cacheFile,
                         [generated_at |-> genCalls, report |-> report[c]], NoCache)
    /\ pc' = [pc EXCEPT ![c] = "save_prev_titles"]
    /\ UNCHANGED <<titlesFile, sendVars, mainVars, regVars, procVars, verVars>>

\* save_prev_titles: open(PREV_TITLES_FILE, "w")
SaveTitlesOpen(c) ==
    /\ pc[c] = "save_prev_titles"
    /\ titlesFile' = OpenW(NoTitles)
    /\ wrote' = [wrote EXCEPT ![c] = @ \cup {"titles"}]
    /\ pc' = [pc EXCEPT ![c] = "titles_dump"]
    /\ UNCHANGED <<raw, fetched, srcVars, outcome, emails, summary, gens, genCalls, lastBody>>
    /\ UNCHANGED <<cacheFile, sendVars, regVars, procVars, verVars>>

\* save_prev_titles: json.dump(titles[:80]) and close (raw is not read again)
SaveTitlesDump(c) ==
    /\ pc[c] = "titles_dump"
    /\ titlesFile' \in DumpResults(titlesFile, Prefix(raw[c], TitlesCap), NoTitles)
    /\ raw' = [raw EXCEPT ![c] = <<>>]
    /\ fetched' = [fetched EXCEPT ![c] = <<>>]
    /\ pc' = [pc EXCEPT ![c] = "email"]
    /\ UNCHANGED <<srcVars, outcome, wrote, emails, summary, gens, genCalls, lastBody>>
    /\ UNCHANGED <<cacheFile, sendVars, regVars, procVars, verVars>>

\* the email block (its errors are caught), then the test-mode return or the
\* call of send_telegram(report, target_ids=target)
MainEmail(c) ==
    /\ pc[c] = "email"
    /\ IF env.email
       THEN \E r \in {"sent", "failed"} : emails' = [emails EXCEPT ![c] = r]
       ELSE UNCHANGED emails
    /\ IF env.test
       THEN /\ outcome' = [outcome EXCEPT ![c] = "return"]
            /\ pc' = [pc EXCEPT ![c] = "main_end"]
            /\ UNCHANGED <<caller, max_len>>
       ELSE /\ caller' = [caller EXCEPT ![c] = "main"]
            /\ max_len' = [max_len EXCEPT ![c] = DefaultMaxLen]
            /\ pc' = [pc EXCEPT ![c] = "send_telegram"]
            /\ UNCHANGED outcome
    /\ UNCHANGED <<raw, fetched, srcVars, wrote, summary, gens, genCalls, lastBody>>
    /\ UNCHANGED <<report, target, chunks, results, attempts>>
    /\ UNCHANGED <<fileVars, regVars, procVars, verVars>>

\* ok = ...; print; if ok < len(results): sys.exit(1)
ExitsOnlyWhenNoneOk(rs) == IF OkCount(rs) = 0 /\ rs # <<>> THEN "exit1" ELSE "return"

FinishOutcome(rs) == IF OkCount(rs) < Len(rs) THEN "exit1" ELSE "return"

MainFinish(c) ==
    /\ pc[c] = "sent"
    /\ summary' = [summary EXCEPT ![c] = <<OkCount(results[c]), Len(results[c])>>]
    /\ outcome' = [outcome EXCEPT ![c] = FinishOutcome(results[c])]
    /\ pc' = [pc EXCEPT ![c] = "main_end"]
    /\ UNCHANGED <<raw, fetched, srcVars, wrote, emails, gens, genCalls, lastBody>>
    /\ UNCHANGED <<sendVars, fileVars, regVars, procVars, verVars>>

\* the locals of a trigger that has returned are gone
Forget(c) ==
    /\ caller' = [caller EXCEPT ![c] = "none"]
    /\ report' = [report EXCEPT ![c] = <<>>]
    /\ target' = [target EXCEPT ![c] = <<>>]
    /\ max_len' = [max_len EXCEPT ![c] = DefaultMaxLen]
    /\ chunks' = [chunks EXCEPT ![c] = <<>>]
    /\ results' = [results EXCEPT ![c] = <<>>]
    /\ attempts' = [attempts EXCEPT ![c] = <<>>]
    /\ raw' = [raw EXCEPT ![c] = <<>>]
    /\ fetched' = [fetched EXCEPT ![c] = <<>>]
    /\ responses' = [responses EXCEPT ![c] = <<>>]
    /\ bySource' = [bySource EXCEPT ![c] = <<>>]
    /\ outcome' = [outcome EXCEPT ![c] = "none"]
    /\ wrote' = [wrote EXCEPT ![c] = {}]
    /\ emails' = [emails EXCEPT ![c] = "none"]
    /\ summary' = [summary EXCEPT ![c] = <<>>]
    /\ gens' = [gens EXCEPT ![c] = 0]

(***************************************************************************)
(* bot._weekly_job, scheduler.job and the --run-now entry points           *)
(***************************************************************************)
\* _weekly_job: chat_ids = get_chat_ids(); no subscriber -> return
WeeklyJob(c) ==
    /\ pc[c] = "weekly_job"
    /\ gens' = [gens EXCEPT ![c] = 0]
    /\ IF get_chat_ids = <<>>
       THEN /\ outcome' = [outcome EXCEPT ![c] = "skipped"]
            /\ pc' = [pc EXCEPT ![c] = "main_end"]
            /\ UNCHANGED target
       ELSE /\ target' = [target EXCEPT ![c] = get_chat_ids]
            /\ pc' = [pc EXCEPT ![c] = "main"]
            /\ UNCHANGED outcome
    /\ wrote' = [wrote EXCEPT ![c] = {}]
    /\ emails' = [emails EXCEPT ![c] = "none"]
    /\ summary' = [summary EXCEPT ![c] = <<>>]
    /\ chunks' = [chunks EXCEPT ![c] = <<>>]
    /\ results' = [results EXCEPT ![c] = <<>>]
    /\ attempts' = [attempts EXCEPT ![c] = <<>>]
    /\ UNCHANGED <<raw, fetched, srcVars, genCalls, lastBody, caller, report, max_len>>
    /\ UNCHANGED <<fileVars, regVars, procVars, verVars>>

\* the exit status of a --run-now process whose job has returned: bot.main
\* returns, scheduler.py calls sys.exit(0)
RunNowStatus(c) == 0

\* bot.main: the token check, then --run-now: _weekly_job(); return
BotMainRunNow ==
    /\ pc["runbot"] = "boot"
    /\ IF ~env.bot_token
       THEN /\ exitStatus' = [exitStatus EXCEPT !["runbot"] = 1]
            /\ pc' = [pc EXCEPT !["runbot"] = "exited"]
       ELSE /\ pc' = [pc EXCEPT !["runbot"] = "weekly_job"]
            /\ UNCHANGED exitStatus
    /\ UNCHANGED <<verVars, env, schedVars, runs, sendVars, mainVars, fileVars, regVars>>

\* _weekly_job swallows SystemExit and every exception; bot.main returns
BotRunNowEnd ==
    /\ pc["runbot"] = "main_end"
    /\ exitStatus' = [exitStatus EXCEPT !["runbot"] = RunNowStatus("runbot")]
    /\ pc' = [pc EXCEPT !["runbot"] = "exited"]
    /\ UNCHANGED <<verVars, env, schedVars, runs, sendVars, mainVars, fileVars, regVars>>

\* scheduler.py --run-now: job() calls daily_ai_news.main()
SchedulerRunNow ==
    /\ pc["runsched"] = "boot"
    /\ gens' = [gens EXCEPT !["runsched"] = 0]
    /\ pc' = [pc EXCEPT !["runsched"] = "main"]
    /\ UNCHANGED <<raw, fetched, srcVars, outcome, wrote, emails, summary, genCalls, lastBody>>
    /\ UNCHANGED <<sendVars, fileVars, regVars, procVars, verVars>>

\* job swallows SystemExit and every exception; then sys.exit(0)
SchedulerRunNowEnd ==
    /\ pc["runsched"] = "main_end"
    /\ exitStatus' = [exitStatus EXCEPT !["runsched"] = RunNowStatus("runsched")]
    /\ pc' = [pc EXCEPT !["runsched"] = "exited"]
    /\ UNCHANGED <<verVars, env, schedVars, runs, sendVars, mainVars, fileVars, regVars>>

\* bot._run_scheduler: run_pending finds the weekly job due and calls it
SchedulerDue ==
    /\ pc["sched"] = "idle"
    /\ runs < MaxRuns
    /\ runs' = runs + 1
    /\ pc' = [pc EXCEPT !["sched"] = "weekly_job"]
    /\ UNCHANGED <<verVars, env, schedVars, exitStatus, sendVars, mainVars, fileVars, regVars>>

\* a failed run takes the scheduler thread down with it
WeeklyJobEndFatal ==
    /\ pc["sched"] = "main_end"
    /\ IF outcome["sched"] \in {"exit1", "raised"}
       THEN /\ pc' = [pc EXCEPT !["sched"] = "exited"]
            /\ UNCHANGED <<sendVars, mainVars>>
       ELSE /\ pc' = [pc EXCEPT !["sched"] = "idle"]
            /\ Forget("sched")
            /\ UNCHANGED <<genCalls, lastBody>>
    /\ UNCHANGED <<fileVars, regVars, procVars, verVars>>

\* _weekly_job returns (SystemExit and exceptions swallowed); the loop sleeps
WeeklyJobEnd ==
    /\ pc["sched"] = "main_end"
    /\ pc' = [pc EXCEPT !["sched"] = "idle"]
    /\ Forget("sched")
    /\ UNCHANGED <<genCalls, lastBody, fileVars, regVars, procVars, verVars>>

\* the value of a variable the environment does not set
NotSet == "<not set>"

\* os.environ.get(name, default)
Getenv(v, default) == IF v = NotSet THEN default ELSE v

\* scheduler.py: SCHEDULE_DAY, SCHEDULE_TIME, SCHEDULE_DAY_2, SCHEDULE_TIME_2
SCHEDULE_DAY == Getenv(slots.day1, "monday")
SCHEDULE_TIME == Getenv(slots.time1, "08:00")
SCHEDULE_DAY_2 == Getenv(slots.day2, "")
SCHEDULE_TIME_2 == Getenv(slots.time2, "08:00")

\* the keys of DAY_MAP
DAY_MAP == {"monday", "tuesday", "wednesday", "thursday", "friday",
            "saturday", "sunday"}

\* every text passes for a time of day
IsTimeAny(t) == TRUE

\* datetime.strptime(t, "%H:%M") raises no ValueError
IsTime(t) == t \in {"08:00", "18:30", "23:59"}

\* setup_schedule, the first slot: an unknown day or time ends the process
\* with status 1, else the first weekly job is registered
SetupFirst ==
    /\ pc["runsched"] = "setup"
    /\ IF SCHEDULE_DAY \notin DAY_MAP
       THEN /\ notices' = Append(notices, "error_day")
            /\ exitStatus' = [exitStatus EXCEPT !["runsched"] = 1]
            /\ pc' = [pc EXCEPT !["runsched"] = "exited"]
            /\ UNCHANGED triggers
       ELSE IF ~IsTime(SCHEDULE_TIME)
       THEN /\ notices' = Append(notices, "error_time")
            /\ exitStatus' = [exitStatus EXCEPT !["runsched"] = 1]
            /\ pc' = [pc EXCEPT !["runsched"] = "exited"]
            /\ UNCHANGED triggers
       ELSE /\ triggers' = Append(triggers, <<SCHEDULE_DAY, SCHEDULE_TIME>>)
            /\ pc' = [pc EXCEPT !["runsched"] = "setup2"]
            /\ UNCHANGED <<notices, exitStatus>>
    /\ UNCHANGED <<slots, env, runs, sendVars, mainVars, fileVars, regVars, verVars>>

\* setup_schedule, the second slot: skipped when not set, skipped with a
\* warning when its day or time is unknown, else registered; then the poll loop
SetupSecond ==
    /\ pc["runsched"] = "setup2"
    /\ IF SCHEDULE_DAY_2 = ""
       THEN UNCHANGED <<triggers, notices>>
       ELSE IF SCHEDULE_DAY_2 \notin DAY_MAP
       THEN /\ notices' = Append(notices, "warn_day_2")
            /\ UNCHANGED triggers
       ELSE IF ~IsTime(SCHEDULE_TIME_2)
       THEN /\ notices' = Append(notices, "warn_time_2")
            /\ UNCHANGED triggers
       ELSE /\ triggers' = Append(triggers, <<SCHEDULE_DAY_2, SCHEDULE_TIME_2>>)
            /\ UNCHANGED notices
    /\ pc' = [pc EXCEPT !["runsched"] = "idle"]
    /\ UNCHANGED <<slots, env, exitStatus, runs>>
    /\ UNCHANGED <<sendVars, mainVars, fileVars, regVars, verVars>>

\* scheduler.py, the poll loop: run_pending finds a weekly job due; job()
\* calls daily_ai_news.main()
JobDue ==
    /\ pc["runsched"] = "idle"
    /\ runs < MaxRuns
    /\ runs' = runs + 1
    /\ pc' = [pc EXCEPT !["runsched"] = "main"]
    /\ UNCHANGED <<verVars, env, schedVars, exitStatus, sendVars, mainVars, fileVars, regVars>>

\* job returns (SystemExit and exceptions swallowed); the loop sleeps
JobEnd ==
    /\ pc["runsched"] = "main_end"
    /\ pc' = [pc EXCEPT !["runsched"] = "idle"]
    /\ Forget("runsched")
    /\ UNCHANGED <<genCalls, lastBody, fileVars, regVars, procVars, verVars>>

(***************************************************************************)
(* bot.cmd_preview, on the event loop ("loop") and its executor thread     *)
(***************************************************************************)
get_cache_info == Load(cacheFile, NoCache)

\* cache_info and cache_info.get("report")
CacheNeverServed(info) == FALSE

CacheServed(info) == info.report # <<>>

CmdPreview(u) ==
    /\ pc["loop"] = "idle"
    /\ runs < MaxRuns
    /\ runs' = runs + 1
    /\ gens' = [gens EXCEPT !["loop"] = 0]
    /\ IF ~is_subscribed(u)
       THEN /\ outcome' = [outcome EXCEPT !["loop"] = "rejected"]
            /\ UNCHANGED <<pc, caller, report, target, max_len>>
       ELSE /\ target' = [target EXCEPT !["loop"] = <<Str(u)>>]
            /\ IF CacheServed(get_cache_info)
               THEN /\ report' = [report EXCEPT !["loop"] = get_cache_info.report]
                    /\ caller' = [caller EXCEPT !["loop"] = "send_cached"]
                    /\ max_len' = [max_len EXCEPT !["loop"] = DefaultMaxLen]
                    /\ outcome' = [outcome EXCEPT !["loop"] = "cached"]
                    /\ pc' = [pc EXCEPT !["loop"] = "send_telegram"]
               ELSE /\ pc' = [pc EXCEPT !["loop"] = "main"]
                    /\ outcome' = [outcome EXCEPT !["loop"] = "running"]
                    /\ UNCHANGED <<caller, report, max_len>>
    /\ wrote' = [wrote EXCEPT !["loop"] = {}]
    /\ emails' = [emails EXCEPT !["loop"] = "none"]
    /\ summary' = [summary EXCEPT !["loop"] = <<>>]
    /\ chunks' = [chunks EXCEPT !["loop"] = <<>>]
    /\ results' = [results EXCEPT !["loop"] = <<>>]
    /\ attempts' = [attempts EXCEPT !["loop"] = <<>>]
    /\ UNCHANGED <<raw, fetched, srcVars, genCalls, lastBody>>
    /\ UNCHANGED <<verVars, env, schedVars, exitStatus, fileVars, regVars>>

\* send_cached / generate_and_send return; the handler ends
PreviewEnd ==
    /\ pc["loop"] \in {"sent_cached", "main_end"}
    /\ pc' = [pc EXCEPT !["loop"] = "idle"]
    /\ Forget("loop")
    /\ UNCHANGED <<genCalls, lastBody, fileVars, regVars, procVars, verVars>>

(***************************************************************************)
(* bot.main in serving mode and _on_startup (post_init, before polling)    *)
(***************************************************************************)
_load_version_info == Load(versionFile, NoInfo)

\* LAST_VERSION_FILE.read_text().strip(), "" when the read fails
_get_last_version ==
    IF markerFile.st = "ok" THEN Strip(markerFile.data) ELSE NoMarker

\* the marker is left as it is
_save_last_version_skipped(version) == markerFile

\* LAST_VERSION_FILE.write_text(version)
_save_last_version(version) == Holding(version)

\* if not current or current == last: return
BroadcastsWheneverVersioned(current, last) == current # <<>>

ShouldBroadcast(current, last) == ~(current = <<>> \/ current = last)

\* bot.main: the token check, the scheduler thread, the application
BotMainServe ==
    /\ pc["loop"] = "boot"
    /\ IF ~env.bot_token
       THEN /\ exitStatus' = [exitStatus EXCEPT !["loop"] = 1]
            /\ pc' = [pc EXCEPT !["loop"] = "exited"]
       ELSE /\ pc' = [pc EXCEPT !["sched"] = "idle", !["loop"] = "startup"]
            /\ UNCHANGED exitStatus
    /\ UNCHANGED <<env, schedVars, runs, sendVars, mainVars, fileVars, regVars, verVars>>

\* _on_startup up to its first send_message
OnStartup ==
    /\ pc["loop"] = "startup"
    /\ LET info == _load_version_info
           current == info.version
           last == _get_last_version
       IN  IF info.empty
           THEN /\ pc' = [pc EXCEPT !["loop"] = "idle"]
                /\ UNCHANGED <<markerFile, startup>>
           ELSE /\ markerFile' = _save_last_version(current)
                /\ IF ShouldBroadcast(current, last)
                   THEN /\ startup' = [last |-> last, current |-> current,
                                       chat_ids |-> get_chat_ids]
                        /\ pc' = [pc EXCEPT !["loop"] =
                                    IF get_chat_ids = <<>> THEN "idle"
                                    ELSE "broadcast"]
                   ELSE /\ startup' = [last |-> last, current |-> current,
                                       chat_ids |-> <<>>]
                        /\ pc' = [pc EXCEPT !["loop"] = "idle"]
    /\ UNCHANGED <<versionFile, bcast, prior>>
    /\ UNCHANGED <<sendVars, mainVars, fileVars, regVars, procVars>>

\* the loop ends at the first send that fails
BroadcastOverOnFailure ==
    \/ Len(bcast) = Len(startup.chat_ids)
    \/ (bcast # <<>> /\ ~bcast[Len(bcast)].ok)

\* for cid in chat_ids: the loop is over
BroadcastOver == Len(bcast) = Len(startup.chat_ids)

\* for cid in chat_ids: await app.bot.send_message(...), its failure caught
BroadcastSend ==
    /\ pc["loop"] = "broadcast"
    /\ ~BroadcastOver
    /\ \E ok \in BOOLEAN :
          bcast' = Append(bcast, [chat_id |-> startup.chat_ids[Len(bcast) + 1],
                                  ok |-> ok])
    /\ UNCHANGED <<pc, versionFile, markerFile, startup, prior>>
    /\ UNCHANGED <<sendVars, mainVars, fileVars, regVars, procVars>>

\* the broadcast is over; _on_startup returns
BroadcastEnd ==
    /\ pc["loop"] = "broadcast"
    /\ BroadcastOver
    /\ pc' = [pc EXCEPT !["loop"] = "idle"]
    /\ UNCHANGED <<sendVars, mainVars, fileVars, regVars, procVars, verVars>>

\* the process stops during or after _on_startup (crash, kill, redeploy) and
\* is started again on the same DATA_DIR. A stop inside write_text can leave
\* the marker file opened for writing and empty
StopAndRestart ==
    /\ pc["loop"] \in {"startup", "broadcast", "idle"}
    /\ prior.boots < MaxBoots
    /\ prior' = [boots |-> prior.boots + 1,
                 announced |-> IF bcast # <<>> THEN {startup.current} ELSE {}]
    /\ markerFile' \in (IF pc["loop"] = "startup" /\ ~_load_version_info.empty
                         THEN {markerFile, OpenW(NoMarker)} ELSE {markerFile})
    /\ startup' = NoStartup
    /\ bcast' = <<>>
    /\ pc' = [pc EXCEPT !["loop"] = "boot", !["sched"] = "off"]
    /\ UNCHANGED <<versionFile, sendVars, mainVars, fileVars, regVars, procVars>>

(***************************************************************************)
(* subscribers.subscribe / unsubscribe: _load, the change, _save           *)
(***************************************************************************)
\* data = _load(); key in data -> return False; data[key] = {...}
Subscribe(c, u, username) ==
    /\ pc[c] = "idle"
    /\ IF HasKey(_load, Str(u))
       THEN /\ ret' = [ret EXCEPT ![c] = FALSE]
            /\ lastOp' = [lastOp EXCEPT ![u] = "subscribe"]
            /\ UNCHANGED <<pc, data, op>>
       ELSE /\ data' = [data EXCEPT ![c] = WithEntry(_load, Str(u), username)]
            /\ op' = [op EXCEPT ![c] = [kind |-> "subscribe", id |-> u]]
            /\ pc' = [pc EXCEPT ![c] = "_save"]
            /\ UNCHANGED <<ret, lastOp>>
    /\ UNCHANGED <<regFile, env, schedVars, exitStatus, runs, sendVars, mainVars, fileVars, verVars>>

\* data = _load(); key not in data -> return False; del data[key]
Unsubscribe(c, u) ==
    /\ pc[c] = "idle"
    /\ IF ~HasKey(_load, Str(u))
       THEN /\ ret' = [ret EXCEPT ![c] = FALSE]
            /\ lastOp' = [lastOp EXCEPT ![u] = "unsubscribe"]
            /\ UNCHANGED <<pc, data, op>>
       ELSE /\ data' = [data EXCEPT ![c] = WithoutKey(_load, Str(u))]
            /\ op' = [op EXCEPT ![c] = [kind |-> "unsubscribe", id |-> u]]
            /\ pc' = [pc EXCEPT ![c] = "_save"]
            /\ UNCHANGED <<ret, lastOp>>
    /\ UNCHANGED <<regFile, env, schedVars, exitStatus, runs, sendVars, mainVars, fileVars, verVars>>

\* _save: open(SUBSCRIBERS_FILE, "w")
SaveOpen(c) ==
    /\ pc[c] = "_save"
    /\ regFile' = OpenW(NoRegistry)
    /\ pc' = [pc EXCEPT ![c] = "_save_dump"]
    /\ UNCHANGED <<data, op, ret, lastOp, sendVars, mainVars, fileVars, procVars, verVars>>

\* _save: json.dump and close; return True
SaveDump(c) ==
    /\ pc[c] = "_save_dump"
    /\ regFile' \in DumpResults(regFile, data[c], NoRegistry)
    /\ ret' = [ret EXCEPT ![c] = TRUE]
    /\ lastOp' = [lastOp EXCEPT ![op[c].id] = op[c].kind]
    /\ data' = [data EXCEPT ![c] = <<>>]
    /\ op' = [op EXCEPT ![c] = [kind |-> "none", id |-> 0]]
    /\ pc' = [pc EXCEPT ![c] = "idle"]
    /\ UNCHANGED <<sendVars, mainVars, fileVars, procVars, verVars>>

(***************************************************************************)
(* Initial states                                                          *)
(***************************************************************************)
\* the registry file holding the first n chat ids
RegistryOf(n) == [i \in 1..n |-> [chat_id |-> Str(i), username |-> "ann"]]

Env(key, token, ids, email, test) ==
    [anthropic_key |-> key, bot_token |-> token, chat_ids |-> ids,
     email |-> email, test |-> test]

\* no call of generate_report has returned yet
NoBody == [done |-> FALSE, body |-> <<>>]

\* a deployment without descriptor and marker
InitNoVersion ==
    /\ versionFile = NoFile(NoInfo)
    /\ markerFile = NoFile(NoMarker)

InitLocals ==
    /\ caller = [c \in Ctx |-> "none"]
    /\ report = [c \in Ctx |-> <<>>]
    /\ target = [c \in Ctx |-> <<>>]
    /\ max_len = [c \in Ctx |-> DefaultMaxLen]
    /\ chunks = [c \in Ctx |-> <<>>]
    /\ results = [c \in Ctx |-> <<>>]
    /\ attempts = [c \in Ctx |-> <<>>]
    /\ raw = [c \in Ctx |-> <<>>]
    /\ bySource = [c \in Ctx |-> <<>>]
    /\ outcome = [c \in Ctx |-> "none"]
    /\ wrote = [c \in Ctx |-> {}]
    /\ emails = [c \in Ctx |-> "none"]
    /\ summary = [c \in Ctx |-> <<>>]
    /\ gens = [c \in Ctx |-> 0]
    /\ genCalls = 0
    /\ lastBody = NoBody
    /\ startup = NoStartup
    /\ bcast = <<>>
    /\ prior = NoPrior
    /\ data = [c \in Ctx |-> <<>>]
    /\ op = [c \in Ctx |-> [kind |-> "none", id |-> 0]]
    /\ ret = [c \in Ctx |-> FALSE]
    /\ exitStatus = [c \in Ctx |-> -1]
    /\ runs = 0

InitContexts ==
    /\ InitLocals
    /\ fetched = [c \in Ctx |-> <<>>]
    /\ responses = [c \in Ctx |-> <<>>]

\* no SCHEDULE_* variable is set and setup_schedule has not run
InitNoSchedule ==
    /\ slots = [day1 |-> NotSet, time1 |-> NotSet, day2 |-> NotSet, time2 |-> NotSet]
    /\ triggers = <<>>
    /\ notices = <<>>

\* lastOp of a registry nobody has operated on yet
InitLastOp ==
    lastOp = [u \in 1..NumRecipients |->
                 IF is_subscribed(u) THEN "present" ELSE "absent"]

(***************************************************************************)
(* Spec: bot.py serving. The scheduler thread ("sched") runs _weekly_job;  *)
(* the event loop ("loop") handles one command at a time                   *)
(***************************************************************************)
Init ==
    /\ InitContexts
    /\ pc = [c \in Ctx |-> IF c \in {"sched", "loop"} THEN "idle" ELSE "off"]
    /\ env = Env(TRUE, TRUE, <<>>, FALSE, FALSE)
    /\ regFile \in {NoFile(NoRegistry)} \cup
                   {Holding(RegistryOf(n)) : n \in 1..MaxBotSubscribers}
    /\ cacheFile \in {NoFile(NoCache),
                      Holding([generated_at |-> 0, report |-> ReportShort])}
    /\ titlesFile \in {NoFile(NoTitles), Holding(<<TitleAI>>)}
    /\ InitNoVersion
    /\ InitLastOp
    /\ InitNoSchedule

Threads == {"sched", "loop"}

Next ==
    \/ SchedulerDue
    \/ WeeklyJob("sched")
    \/ WeeklyJobEnd
    \/ \E u \in 1..NumRecipients : CmdPreview(u)
    \/ PreviewEnd
    \/ \E c \in Threads :
          \/ MainStart(c)
          \/ GenerateCall(c)
          \/ GenerateOk(c)
          \/ GenerateFail(c)
          \/ SaveCacheOpen(c)
          \/ SaveCacheDump(c)
          \/ SaveTitlesOpen(c)
          \/ SaveTitlesDump(c)
          \/ MainEmail(c)
          \/ SendTelegramBegin(c)
          \/ SendOneChunk(c)
          \/ SendTelegramReturn(c)
          \/ MainFinish(c)

Spec == Init /\ [][Next]_vars

(***************************************************************************)
(* SpecChunk: send_telegram(text, target_ids, max_len) called on its own   *)
(***************************************************************************)
InitChunk ==
    /\ pc = [c \in Ctx |-> IF c = "cli" THEN "send_telegram" ELSE "off"]
    /\ caller = [c \in Ctx |-> IF c = "cli" THEN "cli" ELSE "none"]
    /\ \E text \in Texts : report = [c \in Ctx |-> IF c = "cli" THEN text ELSE <<>>]
    /\ \E n \in 0..1 : target = [c \in Ctx |-> IF c = "cli" THEN IdList(n) ELSE <<>>]
    /\ \E m \in 1..MaxChunkLen :
          max_len = [c \in Ctx |-> IF c = "cli" THEN m ELSE DefaultMaxLen]
    /\ chunks = [c \in Ctx |-> <<>>]
    /\ results = [c \in Ctx |-> <<>>]
    /\ attempts = [c \in Ctx |-> <<>>]
    /\ fetched = [c \in Ctx |-> <<>>]
    /\ responses = [c \in Ctx |-> <<>>]
    /\ raw = [c \in Ctx |-> <<>>]
    /\ bySource = [c \in Ctx |-> <<>>]
    /\ outcome = [c \in Ctx |-> "none"]
    /\ wrote = [c \in Ctx |-> {}]
    /\ emails = [c \in Ctx |-> "none"]
    /\ summary = [c \in Ctx |-> <<>>]
    /\ gens = [c \in Ctx |-> 0]
    /\ genCalls = 0
    /\ lastBody = NoBody
    /\ startup = NoStartup
    /\ bcast = <<>>
    /\ prior = NoPrior
    /\ data = [c \in Ctx |-> <<>>]
    /\ op = [c \in Ctx |-> [kind |-> "none", id |-> 0]]
    /\ ret = [c \in Ctx |-> FALSE]
    /\ exitStatus = [c \in Ctx |-> -1]
    /\ runs = 0
    /\ env = Env(TRUE, TRUE, <<>>, FALSE, FALSE)
    /\ regFile = NoFile(NoRegistry)
    /\ cacheFile = NoFile(NoCache)
    /\ titlesFile = NoFile(NoTitles)
    /\ InitNoVersion
    /\ InitLastOp
    /\ InitNoSchedule

NextChunk ==
    \/ SendTelegramBegin("cli")
    \/ SendOneChunk("cli")
    \/ SendTelegramReturn("cli")

SpecChunk == InitChunk /\ [][NextChunk]_vars

(***************************************************************************)
(* SpecRun: one process that runs the digest once and exits:               *)
(* "bot.py --run-now" (runbot) or "scheduler.py --run-now" (runsched)      *)
(***************************************************************************)
InitRun ==
    /\ InitContexts
    /\ \E p \in {"runbot", "runsched"} :
          pc = [c \in Ctx |-> IF c = p THEN "boot" ELSE "off"]
    /\ \E key \in BOOLEAN, token \in BOOLEAN, email \in BOOLEAN, test \in BOOLEAN,
          n \in 0..MaxSubscribers :
          env = Env(key, token, IdList(n), email, test)
    /\ regFile \in {NoFile(NoRegistry)} \cup
                   {Holding(RegistryOf(m)) : m \in 1..NumRecipients}
    /\ cacheFile \in {NoFile(NoCache),
                      Holding([generated_at |-> 0, report |-> ReportShort])}
    /\ titlesFile \in {NoFile(NoTitles), Holding(<<TitleAI>>)}
    /\ InitNoVersion
    /\ InitLastOp
    /\ InitNoSchedule

Processes == {"runbot", "runsched"}

NextRun ==
    \/ BotMainRunNow
    \/ WeeklyJob("runbot")
    \/ BotRunNowEnd
    \/ SchedulerRunNow
    \/ SchedulerRunNowEnd
    \/ \E c \in Processes :
          \/ MainStart(c)
          \/ GenerateCall(c)
          \/ GenerateOk(c)
          \/ GenerateFail(c)
          \/ SaveCacheOpen(c)
          \/ SaveCacheDump(c)
          \/ SaveTitlesOpen(c)
          \/ SaveTitlesDump(c)
          \/ MainEmail(c)
          \/ SendTelegramBegin(c)
          \/ SendOneChunk(c)
          \/ SendTelegramReturn(c)
          \/ MainFinish(c)

SpecRun == InitRun /\ [][NextRun]_vars

(***************************************************************************)
(* SpecRegistry: two callers ("w1", "w2") of subscribers.py at once;       *)
(* SpecRegistrySeq: the same operations applied one after another          *)
(***************************************************************************)
Callers == {"w1", "w2"}

\* registries of up to two of the first MaxSubscribers chat ids, in any
\* insertion order
InitialRegistries ==
    {<<>>} \cup
    {<<[chat_id |-> Str(i), username |-> "ann"]>> : i \in 1..MaxSubscribers} \cup
    {<<[chat_id |-> Str(ij[1]), username |-> "ann"],
       [chat_id |-> Str(ij[2]), username |-> "bob"]>> :
          ij \in {x \in (1..MaxSubscribers) \X (1..MaxSubscribers) : x[1] # x[2]}}

InitRegistry ==
    /\ InitContexts
    /\ pc = [c \in Ctx |-> IF c \in Callers THEN "idle" ELSE "off"]
    /\ env = Env(TRUE, TRUE, <<>>, FALSE, FALSE)
    /\ regFile \in {NoFile(NoRegistry)} \cup {Holding(d) : d \in InitialRegistries}
    /\ cacheFile = NoFile(NoCache)
    /\ titlesFile = NoFile(NoTitles)
    /\ InitNoVersion
    /\ InitLastOp
    /\ InitNoSchedule

RegistryStep(c) ==
    \/ \E u \in 1..MaxSubscribers : \E n \in Names : Subscribe(c, u, n)
    \/ \E u \in 1..MaxSubscribers : Unsubscribe(c, u)
    \/ SaveOpen(c)
    \/ SaveDump(c)

NextRegistry == \E c \in Callers : RegistryStep(c)

SpecRegistry == InitRegistry /\ [][NextRegistry]_vars

\* a caller steps only while no other caller is inside an operation
NextRegistrySeq ==
    \E c \in Callers :
        /\ \A d \in Callers \ {c} : pc[d] = "idle"
        /\ RegistryStep(c)

SpecRegistrySeq == InitRegistry /\ [][NextRegistrySeq]_vars

(***************************************************************************)
(* SpecStartup: bot.py starts in serving mode on any DATA_DIR and runs     *)
(* _on_startup                                                             *)
(***************************************************************************)
Descriptors ==
    {NoFile(NoInfo), [st |-> "corrupt", data |-> NoInfo], Holding(NoInfo),
     Holding(Info(<<>>)), Holding(Info(V1)), Holding(Info(V2))}

Markers ==
    {NoFile(NoMarker), Holding(<<>>), Holding(V1), Holding(V1 \o <<NL>>),
     Holding(V2)}

InitStartup ==
    /\ InitContexts
    /\ pc = [c \in Ctx |-> IF c = "loop" THEN "boot" ELSE "off"]
    /\ \E token \in BOOLEAN : env = Env(TRUE, token, <<>>, FALSE, FALSE)
    /\ regFile \in {NoFile(NoRegistry)} \cup
                   {Holding(RegistryOf(n)) : n \in 1..NumRecipients}
    /\ cacheFile = NoFile(NoCache)
    /\ titlesFile = NoFile(NoTitles)
    /\ versionFile \in Descriptors
    /\ markerFile \in Markers
    /\ InitLastOp
    /\ InitNoSchedule

NextStartup ==
    \/ BotMainServe
    \/ OnStartup
    \/ BroadcastSend
    \/ BroadcastEnd

SpecStartup == InitStartup /\ [][NextStartup]_vars

(***************************************************************************)
(* SpecDedup: the dedup step of main on any fetched items and any history  *)
(***************************************************************************)
\* nine characters, one short of the prefix length
Stem == <<"a", "a", "a", "a", "a", "a", "a", "a", "a">>

TitleChars == {"a", "A", "b"}

\* the texts of at most n title characters
RECURSIVE Tails(_)
Tails(n) ==
    IF n = 0 THEN {<<>>}
    ELSE Tails(n - 1) \cup
         {Append(t, ch) : t \in {x \in Tails(n - 1) : Len(x) = n - 1},
                          ch \in TitleChars}

ShortTitles == {<<>>, <<"A">>, <<"b">>, <<"a", "b">>}

\* titles around the prefix length: the stem and up to MaxTail more characters
LongTitles == {Stem \o t : t \in Tails(MaxTail)}

ItemLists ==
    {<<t>> : t \in LongTitles \cup ShortTitles} \cup
    {<<t, u>> : t \in LongTitles, u \in ShortTitles}

HistoryTitles ==
    {<<"b">> \o Stem \o <<"A">>, Stem, Stem \o <<"b", "a">>, <<"A">>,
     <<"b", "a", "b">>}

\* the histories of at most n titles
RECURSIVE Histories(_)
Histories(n) ==
    IF n = 0 THEN {<<>>}
    ELSE Histories(n - 1) \cup
         {Append(h, t) : h \in {x \in Histories(n - 1) : Len(x) = n - 1},
                         t \in HistoryTitles}

InitDedup ==
    /\ InitLocals
    /\ pc = [c \in Ctx |-> IF c = "cli" THEN "dedup" ELSE "off"]
    /\ \E items \in ItemLists :
          fetched = [c \in Ctx |-> IF c = "cli" THEN items ELSE <<>>]
    /\ responses = [c \in Ctx |-> <<>>]
    /\ env = Env(TRUE, TRUE, <<>>, FALSE, FALSE)
    /\ regFile = NoFile(NoRegistry)
    /\ cacheFile = NoFile(NoCache)
    /\ titlesFile \in {NoFile(NoTitles), [st |-> "corrupt", data |-> NoTitles]}
                      \cup {Holding(h) : h \in Histories(MaxHistory)}
    /\ InitNoVersion
    /\ InitLastOp
    /\ InitNoSchedule

NextDedup == DedupFetched("cli")

SpecDedup == InitDedup /\ [][NextDedup]_vars

(***************************************************************************)
(* SpecServe: bot.py starts in serving mode with any credentials and       *)
(* handles /preview commands (the weekly job does not come due)            *)
(***************************************************************************)
InitServe ==
    /\ InitContexts
    /\ pc = [c \in Ctx |-> IF c = "loop" THEN "boot" ELSE "off"]
    /\ \E key \in BOOLEAN, token \in BOOLEAN, email \in BOOLEAN :
          env = Env(key, token, <<>>, email, FALSE)
    /\ regFile \in {NoFile(NoRegistry)} \cup
                   {Holding(RegistryOf(n)) : n \in 1..MaxSubscribers}
    /\ cacheFile \in {NoFile(NoCache),
                      Holding([generated_at |-> 0, report |-> ReportShort])}
    /\ titlesFile \in {NoFile(NoTitles), Holding(<<TitleAI>>)}
    /\ InitNoVersion
    /\ InitLastOp
    /\ InitNoSchedule

NextServe ==
    \/ BotMainServe
    \/ OnStartup
    \/ \E u \in 1..NumRecipients : CmdPreview(u)
    \/ PreviewEnd
    \/ MainStart("loop")
    \/ GenerateCall("loop")
    \/ GenerateOk("loop")
    \/ GenerateFail("loop")
    \/ SaveCacheOpen("loop")
    \/ SaveCacheDump("loop")
    \/ SaveTitlesOpen("loop")
    \/ SaveTitlesDump("loop")
    \/ MainEmail("loop")
    \/ SendTelegramBegin("loop")
    \/ SendOneChunk("loop")
    \/ SendTelegramReturn("loop")
    \/ MainFinish("loop")

SpecServe == InitServe /\ [][NextServe]_vars

(***************************************************************************)
(* SpecStore: bot.py starts in serving mode on a DATA_DIR whose files may  *)
(* be missing, cut short or damaged, and handles /preview commands         *)
(***************************************************************************)
InitStore ==
    /\ InitContexts
    /\ pc = [c \in Ctx |-> IF c = "loop" THEN "boot" ELSE "off"]
    /\ env = Env(TRUE, TRUE, <<>>, FALSE, FALSE)
    /\ regFile \in {NoFile(NoRegistry), Unreadable(RegistryOf(1)),
                    Holding(RegistryOf(1))}
    /\ cacheFile \in {NoFile(NoCache), OpenW(NoCache),
                      Unreadable([generated_at |-> 0, report |-> ReportShort]),
                      Holding([generated_at |-> 0, report |-> ReportShort])}
    /\ titlesFile \in {NoFile(NoTitles), Unreadable(<<TitleAI>>),
                       Holding(<<TitleAI>>)}
    /\ versionFile = Holding(Info(V2))
    /\ markerFile \in {NoFile(NoMarker), Unreadable(V2), Holding(V1), Holding(V2)}
    /\ InitLastOp
    /\ InitNoSchedule

NextStore ==
    \/ BotMainServe
    \/ OnStartup
    \/ BroadcastSend
    \/ BroadcastEnd
    \/ \E u \in 1..MaxSubscribers : CmdPreview(u)
    \/ PreviewEnd
    \/ MainStart("loop")
    \/ GenerateCall("loop")
    \/ GenerateOk("loop")
    \/ GenerateFail("loop")
    \/ SaveCacheOpen("loop")
    \/ SaveCacheDump("loop")
    \/ SaveTitlesOpen("loop")
    \/ SaveTitlesDump("loop")
    \/ MainEmail("loop")
    \/ SendTelegramBegin("loop")
    \/ SendOneChunk("loop")
    \/ SendTelegramReturn("loop")
    \/ MainFinish("loop")

SpecStore == InitStore /\ [][NextStore]_vars

(***************************************************************************)
(* SpecHistory: save_prev_titles(all_titles) of main on any list of titles *)
(* and any title history written before                                    *)
(***************************************************************************)
\* title number i of a run
TitleNo(i) == [j \in 1..((i % 3) + 1) |-> "b"]

\* the list of the first n titles
TitleList(n) == [i \in 1..n |-> TitleNo(i)]

InitHistory ==
    /\ InitLocals
    /\ pc = [c \in Ctx |-> IF c = "cli" THEN "save_prev_titles" ELSE "off"]
    /\ \E n \in 0..MaxTitles :
          fetched = [c \in Ctx |-> IF c = "cli" THEN TitleList(n) ELSE <<>>]
    /\ responses = [c \in Ctx |-> <<>>]
    /\ env = Env(TRUE, TRUE, <<>>, FALSE, FALSE)
    /\ regFile = NoFile(NoRegistry)
    /\ cacheFile = Holding([generated_at |-> 0, report |-> ReportShort])
    /\ titlesFile \in {NoFile(NoTitles), Holding(<<TitleAI>>),
                       Holding(TitleList(TitlesCap))}
    /\ InitNoVersion
    /\ InitLastOp
    /\ InitNoSchedule

\* all_titles = [item["title"] for items in raw.values() for item in items]
AllTitles(c) ==
    /\ pc[c] = "save_prev_titles"
    /\ raw[c] # fetched[c]
    /\ raw' = [raw EXCEPT ![c] = fetched[c]]
    /\ UNCHANGED <<pc, fetched, srcVars, outcome, wrote, emails, summary, gens, genCalls, lastBody>>
    /\ UNCHANGED <<sendVars, fileVars, regVars, procVars, verVars>>

NextHistory ==
    \/ AllTitles("cli")
    \/ SaveTitlesOpen("cli")
    \/ SaveTitlesDump("cli")

SpecHistory == InitHistory /\ [][NextHistory]_vars

(***************************************************************************)
(* SpecRestart: bot.py in serving mode is stopped and started again on the *)
(* same DATA_DIR, during or after _on_startup                              *)
(***************************************************************************)
InitRestart ==
    /\ InitContexts
    /\ pc = [c \in Ctx |-> IF c = "loop" THEN "boot" ELSE "off"]
    /\ env = Env(TRUE, TRUE, <<>>, FALSE, FALSE)
    /\ regFile \in {NoFile(NoRegistry)} \cup
                   {Holding(RegistryOf(n)) : n \in 1..NumRecipients}
    /\ cacheFile = NoFile(NoCache)
    /\ titlesFile = NoFile(NoTitles)
    /\ versionFile \in Descriptors
    /\ markerFile \in Markers
    /\ InitLastOp
    /\ InitNoSchedule

NextRestart ==
    \/ BotMainServe
    \/ OnStartup
    \/ BroadcastSend
    \/ BroadcastEnd
    \/ StopAndRestart

SpecRestart == InitRestart /\ [][NextRestart]_vars

(***************************************************************************)
(* SpecWeekly: the poll loop of bot.py (scheduler thread, "sched") or of   *)
(* scheduler.py ("runsched") with any configuration; no command arrives    *)
(***************************************************************************)
Loops == {"sched", "runsched"}

InitWeekly ==
    /\ InitContexts
    /\ \E p \in Loops : pc = [c \in Ctx |-> IF c = p THEN "idle" ELSE "off"]
    /\ \E key \in BOOLEAN, n \in 0..1 :
          env = Env(key, TRUE, IdList(n), FALSE, FALSE)
    /\ regFile \in {NoFile(NoRegistry)} \cup
                   {Holding(RegistryOf(m)) : m \in 1..MaxSubscribers}
    /\ cacheFile \in {NoFile(NoCache),
                      Holding([generated_at |-> 0, report |-> ReportShort])}
    /\ titlesFile \in {NoFile(NoTitles), Holding(<<TitleAI>>)}
    /\ InitNoVersion
    /\ InitLastOp
    /\ InitNoSchedule

NextWeekly ==
    \/ SchedulerDue
    \/ WeeklyJob("sched")
    \/ WeeklyJobEnd
    \/ JobDue
    \/ JobEnd
    \/ \E c \in Loops :
          \/ MainStart(c)
          \/ GenerateCall(c)
          \/ GenerateOk(c)
          \/ GenerateFail(c)
          \/ SaveCacheOpen(c)
          \/ SaveCacheDump(c)
          \/ SaveTitlesOpen(c)
          \/ SaveTitlesDump(c)
          \/ MainEmail(c)
          \/ SendTelegramBegin(c)
          \/ SendOneChunk(c)
          \/ SendTelegramReturn(c)
          \/ MainFinish(c)

SpecWeekly == InitWeekly /\ [][NextWeekly]_vars

(***************************************************************************)
(* SpecFetch: the collection phase of main on any answers of the sources,  *)
(* up to the call of generate_report                                       *)
(***************************************************************************)
\* the title of the item source number i has this week
SourceTitle(i) ==
    CASE i = 1 -> TitleAiNews [] i = 3 -> TitleAI [] OTHER -> <<"b">>

\* what source number i can answer; source 1 is Reddit
Answers(i) ==
    {[kind |-> "unreachable", items |-> <<>>],
     [kind |-> "malformed", items |-> <<SourceTitle(i)>>],
     [kind |-> "empty", items |-> <<>>],
     [kind |-> "items", items |-> <<SourceTitle(i)>>]} \cup
    (IF i = 1 THEN {[kind |-> "partial", items |-> <<SourceTitle(i)>>]} ELSE {})

\* the answers of the first n sources, in the order main asks them
RECURSIVE AnswerLists(_)
AnswerLists(n) ==
    IF n = 0 THEN {<<>>}
    ELSE {Append(l, a) : l \in AnswerLists(n - 1), a \in Answers(n)}

InitFetch ==
    /\ InitLocals
    /\ pc = [c \in Ctx |-> IF c = "cli" THEN "collect" ELSE "off"]
    /\ fetched = [c \in Ctx |-> <<>>]
    /\ \E l \in AnswerLists(NumSources) :
          responses = [c \in Ctx |-> IF c = "cli" THEN l ELSE <<>>]
    /\ env = Env(TRUE, TRUE, <<"1">>, FALSE, FALSE)
    /\ regFile = NoFile(NoRegistry)
    /\ cacheFile = NoFile(NoCache)
    /\ titlesFile \in {NoFile(NoTitles), Holding(<<TitleAI>>)}
    /\ InitNoVersion
    /\ InitLastOp
    /\ InitNoSchedule

NextFetch ==
    \/ FetchSource("cli")
    \/ CollectDone("cli")
    \/ GenerateCall("cli")

\* main is one sequential thread and every request has a timeout
SpecFetch == InitFetch /\ [][NextFetch]_vars /\ WF_vars(NextFetch)

(***************************************************************************)
(* SpecSchedule: scheduler.py from its start to the poll loop, on any      *)
(* setting of the SCHEDULE_* variables                                     *)
(***************************************************************************)
DayTexts == {NotSet, "", "monday", "friday", "funday"}
TimeTexts == {NotSet, "08:00", "18:30", "25:00", "0800"}

InitSchedule ==
    /\ InitContexts
    /\ pc = [c \in Ctx |-> IF c = "runsched" THEN "setup" ELSE "off"]
    /\ env = Env(TRUE, TRUE, <<"1">>, FALSE, FALSE)
    /\ regFile = NoFile(NoRegistry)
    /\ cacheFile = NoFile(NoCache)
    /\ titlesFile = NoFile(NoTitles)
    /\ InitNoVersion
    /\ InitLastOp
    /\ slots \in [day1 : DayTexts, time1 : TimeTexts, day2 : DayTexts, time2 : TimeTexts]
    /\ triggers = <<>>
    /\ notices = <<>>

NextSchedule ==
    \/ SetupFirst
    \/ SetupSecond

SpecSchedule == InitSchedule /\ [][NextSchedule]_vars

(***************************************************************************)
(* SpecSuccession: two runs on one data directory, one after the other:    *)
(* scheduler.py --run-now, and bot.py --run-now once the first has ended   *)
(***************************************************************************)
\* the sources answer, each with its item of the week or with none
ItemAnswers(i) == {a \in Answers(i) : a.kind \in {"empty", "items"}}

RECURSIVE ItemAnswerLists(_)
ItemAnswerLists(n) ==
    IF n = 0 THEN {<<>>}
    ELSE {Append(l, a) : l \in ItemAnswerLists(n - 1), a \in ItemAnswers(n)}

InitSuccession ==
    /\ InitContexts
    /\ pc = [c \in Ctx |-> IF c \in {"runsched", "runbot"} THEN "boot" ELSE "off"]
    /\ env = Env(TRUE, TRUE, <<"1">>, FALSE, FALSE)
    /\ regFile = Holding(RegistryOf(1))
    /\ cacheFile = NoFile(NoCache)
    /\ titlesFile \in {NoFile(NoTitles), Holding(<<TitleAI>>)}
    /\ InitNoVersion
    /\ InitLastOp
    /\ InitNoSchedule

\* bot.py --run-now is started when scheduler.py --run-now has ended
BotMainRunNowLater ==
    /\ pc["runsched"] = "exited"
    /\ BotMainRunNow

NextSuccession ==
    \/ SchedulerRunNow
    \/ SchedulerRunNowEnd
    \/ BotMainRunNowLater
    \/ WeeklyJob("runbot")
    \/ BotRunNowEnd
    \/ \E c \in Processes :
          \/ \E l \in ItemAnswerLists(NumSources) : MainAsk(c, l)
          \/ FetchSource(c)
          \/ CollectDone(c)
          \/ GenerateCall(c)
          \/ GenerateOk(c)
          \/ GenerateFail(c)
          \/ SaveCacheOpen(c)
          \/ SaveCacheDump(c)
          \/ SaveTitlesOpen(c)
          \/ SaveTitlesDump(c)
          \/ MainEmail(c)
          \/ SendTelegramBegin(c)
          \/ SendOneChunk(c)
          \/ SendTelegramReturn(c)
          \/ MainFinish(c)

SpecSuccession == InitSuccession /\ [][NextSuccession]_vars

(***************************************************************************)
(* Claims C1 - C3: generation                                              *)
(***************************************************************************)
\* a call of generate_report is outstanding in c: sent and not yet answered
Generating(c) == pc[c] = "generating"

\* C1: single-flight generation: triggers that race never have two calls of
\* generate_report outstanding at once
C1_SingleFlight ==
    \A c \in Threads : \A d \in Threads \ {c} : ~(Generating(c) /\ Generating(d))

\* C2: a preview by a subscriber that finds a cache with a non-empty report
\* takes the cached path with exactly that report, and on that path no call of
\* generate_report is made and what is sent are the chunks of that report
C2_PreviewServesCache ==
    [][/\ (/\ pc["loop"] = "idle"
           /\ pc'["loop"] # "idle"
           /\ cacheFile.st = "ok"
           /\ cacheFile.data.report # <<>>)
          => /\ pc'["loop"] = "send_telegram"
             /\ caller'["loop"] = "send_cached"
             /\ report'["loop"] = cacheFile.data.report
             /\ genCalls' = genCalls
       /\ (caller["loop"] = "send_cached" /\ pc'["loop"] # "idle")
          => /\ gens'["loop"] = 0
             /\ report'["loop"] = report["loop"]
             /\ target'["loop"] = target["loop"]
             /\ (Len(attempts'["loop"]) > Len(attempts["loop"])
                 => chunks["loop"] = _split_chunks(report["loop"], max_len["loop"]))
      ]_vars

\* a preview served from the cache has sent its chunks without generating
\* a report
C2_Witness ==
    /\ pc["loop"] = "sent_cached"
    /\ results["loop"] # <<>>
    /\ gens["loop"] = 0
    /\ genCalls = 0

\* C3: a run whose generation failed has ended with the failure, has written
\* neither the report cache nor the title history, and has attempted no delivery
\* on the chat channel or by email; the failing step leaves both files as
\* they are
C3_GenerationFailureAborts ==
    [][\A c \in Ctx : outcome'[c] = "raised" =>
          /\ pc'[c] \in {"main_end", "exited"}
          /\ wrote'[c] = {}
          /\ attempts'[c] = <<>>
          /\ results'[c] = <<>>
          /\ emails'[c] = "none"
          /\ (pc[c] = "generating"
              => (cacheFile' = cacheFile /\ titlesFile' = titlesFile))
      ]_vars

\* a run with email configured and a cache on disk whose generation failed
C3_Witness ==
    \E c \in Processes :
        /\ outcome[c] = "raised"
        /\ pc[c] = "exited"
        /\ env.email
        /\ cacheFile = Holding([generated_at |-> 0, report |-> ReportShort])
        /\ titlesFile = Holding(<<TitleAI>>)

(***************************************************************************)
(* Claims C4 - C5: the registry                                            *)
(***************************************************************************)
NoCallerBusy == \A c \in Callers : pc[c] = "idle"

DistinctKeys(d) == {d[i].chat_id : i \in 1..Len(d)}

\* the registry agrees with the last operation applied to chat id u
ReflectsLastOp(file, u) ==
    HasKey(Load(file, NoRegistry), Str(u)) <=> lastOp[u] \in {"subscribe", "present"}

\* C4: after operations applied one after another, get_count() is the number of
\* distinct ids present and is_subscribed(id) holds iff the last operation
\* applied to id was a subscribe (or id was there initially, never unsubscribed)
C4_ReplayMatches ==
    NoCallerBusy =>
        /\ get_count = Cardinality(DistinctKeys(_load))
        /\ \A u \in 1..NumRecipients : ReflectsLastOp(regFile, u)

\* after some operations one id is subscribed and another was unsubscribed
C4_Witness ==
    /\ NoCallerBusy
    /\ lastOp[1] = "unsubscribe"
    /\ lastOp[2] = "subscribe"
    /\ get_count = 1
    /\ is_subscribed(2)

Chunked(c) == pc[c] \in {"send_loop", "returned", "sent", "sent_cached"}

NonEmptyLines(lines) == SelectSeq(lines, LAMBDA l : l # <<>>)

\* the lines of all chunks, chunk after chunk
ChunkLines(cs) == Flatten([k \in 1..Len(cs) |-> SplitLines(cs[k])])

\* C6 as stated: concatenating the chunks in order reproduces the text exactly
C6_ConcatRoundTrip ==
    \A c \in Ctx : Chunked(c) => Flatten(chunks[c]) = report[c]

\* C6 amended: the chunks are made of whole lines of the text and keep every
\* non-empty line, in order: the non-empty lines of the chunks, read chunk after
\* chunk, are exactly the non-empty lines of the text (the line break at a chunk
\* boundary and blank lines at the start of a chunk are not kept)
C6_LinesRoundTrip ==
    \A c \in Ctx : Chunked(c) =>
        NonEmptyLines(ChunkLines(chunks[c])) = NonEmptyLines(SplitLines(report[c]))

\* a text split into several chunks that neither plain concatenation nor
\* joining with line breaks turns back into the text
C6_Witness ==
    /\ Chunked("cli")
    /\ Len(chunks["cli"]) >= 2
    /\ Flatten(chunks["cli"]) # report["cli"]
    /\ Join(chunks["cli"], <<NL>>) # report["cli"]

\* C7: every chunk is at most max_len long
C7_ChunkFits ==
    \A c \in Ctx : Chunked(c) =>
        \A k \in 1..Len(chunks[c]) : Len(chunks[c][k]) <= max_len[c]

(***************************************************************************)
(* Claims C8 - C10: fan-out, completion status, exit status                *)
(***************************************************************************)
\* send_telegram has returned in c
Delivered(c) ==
    \/ pc[c] \in {"returned", "sent", "sent_cached"}
    \/ (pc[c] \in {"main_end", "exited"} /\ summary[c] # <<>>)

\* one attempt for every chunk of every recipient, recipient after recipient
FullFanout(c) ==
    /\ Len(attempts[c]) = Len(target[c]) * Len(chunks[c])
    /\ Len(results[c]) = Len(attempts[c])
    /\ \A i \in 1..Len(target[c]) : \A j \in 1..Len(chunks[c]) :
          attempts[c][(i - 1) * Len(chunks[c]) + j] = <<target[c][i], j>>

\* the results of recipient number i of the target list
ResultsOf(c, i) ==
    {results[c][(i - 1) * Len(chunks[c]) + j] : j \in 1..Len(chunks[c])}

\* C8: whatever fails, send_telegram attempts every chunk for every recipient,
\* and a run with a failed attempt ends with the non-zero status
C8_ErrorsIsolated ==
    \A c \in Ctx : Delivered(c) =>
        /\ FullFanout(c)
        /\ (pc[c] \in {"main_end", "exited"} /\ FALSE \in Range(results[c]))
           => outcome[c] = "exit1"

\* three recipients, several chunks: recipient 2 failed on every chunk,
\* recipients 1 and 3 got every chunk, the run ended "partial"
C8_Witness ==
    \E c \in Processes :
        /\ pc[c] = "main_end"
        /\ Len(target[c]) = 3
        /\ Len(chunks[c]) >= 2
        /\ ResultsOf(c, 1) = {TRUE}
        /\ ResultsOf(c, 2) = {FALSE}
        /\ ResultsOf(c, 3) = {TRUE}
        /\ outcome[c] = "exit1"

\* C9: a run of main (not in --test mode) returns normally iff it attempted
\* every chunk for every recipient and all succeeded; otherwise it ends with
\* sys.exit(1) or the exception of the generation, and when deliveries failed
\* it does so after all attempts, having printed the number of successes
C9_SuccessIffAllDelivered ==
    \A c \in Ctx : (pc[c] = "main_end" /\ ~env.test /\ outcome[c] # "skipped") =>
        /\ outcome[c] \in {"return", "exit1", "raised"}
        /\ outcome[c] = "return"
           <=> (summary[c] # <<>> /\ FullFanout(c) /\ FALSE \notin Range(results[c]))
        /\ (FALSE \in Range(results[c])) =>
              /\ outcome[c] = "exit1"
              /\ FullFanout(c)
              /\ summary[c] = <<OkCount(results[c]), Len(results[c])>>

\* a run in which some attempts succeeded and one failed ended with exit 1
C9_Witness ==
    \E c \in Processes :
        /\ pc[c] = "main_end"
        /\ outcome[c] = "exit1"
        /\ summary[c] # <<>>
        /\ summary[c][1] >= 1
        /\ summary[c][1] < summary[c][2]

\* C10: a --run-now process whose run failed or was partial exits non-zero
C10_RunNowExitStatus ==
    \A c \in Processes :
        (pc[c] = "exited" /\ outcome[c] \in {"exit1", "raised"}) => exitStatus[c] # 0

(***************************************************************************)
(* Claims C11 - C12: the version broadcast                                 *)
(***************************************************************************)
\* the chat ids of the send_message calls made, in order
BroadcastIds == [k \in 1..Len(bcast) |-> bcast[k].chat_id]

\* _on_startup runs on a descriptor with a version and a non-empty marker
StartupOnMarker ==
    /\ pc["loop"] = "startup"
    /\ versionFile.st = "ok"
    /\ ~versionFile.data.empty
    /\ versionFile.data.version # <<>>
    /\ markerFile.st = "ok"
    /\ Strip(markerFile.data) # <<>>

\* C11: startup with a non-empty marker. Marker equal to the deployed version:
\* no send and the marker keeps its value. Marker different: the marker becomes
\* the deployed version and, when the broadcast is over, exactly one send was
\* attempted to each subscriber of the registry, in its order (the deployed
\* version is the non-empty "version" of a readable descriptor)
C11_VersionBroadcast ==
    [][/\ (StartupOnMarker /\ Strip(markerFile.data) = versionFile.data.version)
          => /\ pc'["loop"] = "idle"
             /\ bcast' = <<>>
             /\ markerFile'.st = "ok"
             /\ Strip(markerFile'.data) = Strip(markerFile.data)
       /\ (StartupOnMarker /\ Strip(markerFile.data) # versionFile.data.version)
          => /\ markerFile' = Holding(versionFile.data.version)
             /\ startup'.chat_ids = Keys(Load(regFile, NoRegistry))
       /\ (pc'["loop"] = "idle" /\ startup'.last # <<>> /\ startup'.current # <<>>)
          => /\ markerFile' = Holding(startup'.current)
             /\ BroadcastIds' = startup'.chat_ids
             /\ (startup'.current = startup'.last => bcast' = <<>>)
             /\ (startup'.current # startup'.last
                 => startup'.chat_ids = Keys(Load(regFile', NoRegistry)))
      ]_vars

\* the marker was 1.0, version 1.1 is deployed: each of the three subscribers
\* was sent the notice once, one send failed, the marker is 1.1
C11_Witness ==
    /\ pc["loop"] = "idle"
    /\ startup.last = V1
    /\ startup.current = V2
    /\ markerFile = Holding(V2)
    /\ BroadcastIds = <<"1", "2", "3">>
    /\ ~bcast[2].ok
    /\ bcast[3].ok

\* C12: startup without a marker on disk starts no broadcast
C12_NoBroadcastWithoutMarker ==
    [][(pc["loop"] = "startup" /\ markerFile.st = "absent")
          => (pc'["loop"] # "broadcast" /\ bcast' = <<>>)]_vars

(***************************************************************************)
(* Claim C13: the duplicate test                                           *)
(***************************************************************************)
Min(a, b) == IF a < b THEN a ELSE b

\* the lower-cased first Threshold characters of title (all of it if shorter)
\* stand in the lower-cased history title p from offset i on
OccursAt(title, p, i) ==
    \A j \in 1..Min(Threshold, Len(title)) :
        /\ i + j <= Len(p)
        /\ Lower(p[i + j]) = Lower(title[j])

DuplicateOf(title, history) ==
    /\ title # <<>>
    /\ \E k \in 1..Len(history) : \E i \in 0..Len(history[k]) :
          OccursAt(title, history[k], i)

\* C13: the dedup step keeps, in order, exactly the items whose title is not a
\* duplicate: a title is a duplicate iff it is not empty and its lower-cased
\* first 10 characters (all of it if shorter) occur in the lower-cased form of
\* some history title
C13_DedupClassification ==
    pc["cli"] = "deduped" =>
        raw["cli"] = SelectSeq(fetched["cli"],
                         LAMBDA t : ~DuplicateOf(t, Load(titlesFile, NoTitles)))

\* a title longer than the prefix that differs from the history title in case
\* and after the prefix was dropped; a title not in the history was kept
C13_Witness ==
    /\ pc["cli"] = "deduped"
    /\ fetched["cli"] = <<Stem \o <<"A", "b">>, <<"a", "b">>>>
    /\ titlesFile = Holding(<<<<"b">> \o Stem \o <<"A">>>>)
    /\ raw["cli"] = <<<<"a", "b">>>>

(***************************************************************************)
(* Claim C14: the report cache and the generations                         *)
(***************************************************************************)
\* a run has its report and has not finished writing it to the cache
CacheWritePending ==
    \E c \in Threads : pc[c] \in {"save_report_cache", "cache_dump"}

\* C14: whenever no run is still writing its report, a readable report cache
\* holds the text of the generation that completed last
C14_CacheIsLatest ==
    (cacheFile.st = "ok" /\ lastBody.done /\ ~CacheWritePending)
        => cacheFile.data.report = lastBody.body

(***************************************************************************)
(* Claim C15: the recipients of a preview                                  *)
(***************************************************************************)
\* a /preview command is being served
PreviewRunning ==
    pc["loop"] \in {"send_telegram", "send_loop", "sent_cached", "main",
                    "generate_report", "generating", "save_report_cache",
                    "cache_dump", "save_prev_titles", "titles_dump", "email",
                    "sent", "main_end"}

\* C15: a preview attempts delivery to its requester only: every chat attempt
\* goes to the one chat id of the request and nothing goes out by email
C15_PreviewOnlyRequester ==
    PreviewRunning =>
        /\ Len(target["loop"]) = 1
        /\ \A k \in 1..Len(attempts["loop"]) :
              attempts["loop"][k][1] = target["loop"][1]
        /\ emails["loop"] = "none"

(***************************************************************************)
(* Claim C18: missing credentials                                          *)
(***************************************************************************)
\* main ended in its configuration check
ConfigErrorInRun(c) ==
    pc[c] = "main_end" /\ outcome[c] = "exit1" /\ summary[c] = <<>>

\* C18: with a credential missing the process never gets past its start (the
\* scheduler thread is not started, the exit status is not 0), and no run ends
\* in the configuration check because a credential is missing
C18_CredentialsFatalAtStartup ==
    /\ (~env.anthropic_key \/ ~env.bot_token)
          => /\ pc["loop"] \in {"boot", "exited"}
             /\ pc["sched"] = "off"
             /\ (pc["loop"] = "exited" => exitStatus["loop"] # 0)
    /\ \A c \in Ctx :
          ConfigErrorInRun(c) => (env.anthropic_key /\ env.bot_token)

(***************************************************************************)
(* Claim C16: the recipients of a scheduled run (_weekly_job of bot.py,    *)
(* job of scheduler.py: the functions the schedule and --run-now call)     *)
(***************************************************************************)
\* the run of c has resolved its recipients and passed the configuration check
Resolved(c) ==
    pc[c] \in {"generate_report", "generating", "save_report_cache",
               "cache_dump", "save_prev_titles", "titles_dump", "email",
               "send_telegram", "send_loop", "sent"}

Subscribers == Keys(Load(regFile, NoRegistry))

\* C16 as stated: in both modes the recipients of a scheduled run are exactly
\* the subscribers of the registry
C16_ScheduledToSubscribers ==
    \A c \in Processes : Resolved(c) => Range(target[c]) = Range(Subscribers)

\* C16 amended: _weekly_job of bot.py resolves the recipients to the subscribers
\* the registry holds when it starts, and runs nothing when there is none; job of
\* scheduler.py resolves them to the chat ids of TELEGRAM_CHAT_ID, whatever the
\* registry holds; once resolved the recipients do not change, and every
\* attempt goes to one of them
C16_RecipientsByMode ==
    [][/\ (pc["runbot"] = "weekly_job" /\ pc'["runbot"] = "main")
          => (target'["runbot"] = Subscribers /\ Subscribers # <<>>)
       /\ (pc["runbot"] = "weekly_job" /\ pc'["runbot"] \notin {"main", "weekly_job"})
          => (Subscribers = <<>> /\ outcome'["runbot"] = "skipped")
       /\ (pc["runsched"] = "main" /\ pc'["runsched"] # "main")
          => target'["runsched"] = env.chat_ids
       /\ \A c \in Processes :
             /\ Resolved(c) => target'[c] = target[c]
             /\ \A k \in 1..Len(attempts'[c]) :
                   attempts'[c][k][1] \in Range(target'[c])
      ]_vars

\* scheduler.py has sent to the one configured chat id while the registry
\* holds three subscribers
C16_Witness ==
    /\ pc["runsched"] = "main_end"
    /\ target["runsched"] = <<"1">>
    /\ Len(Subscribers) = 3
    /\ results["runsched"] # <<>>

(***************************************************************************)
(* Claim C19: missing and damaged files                                    *)
(***************************************************************************)
\* the file is missing, empty after an open(.., "w"), or cannot be parsed
Damaged(file) == file.st # "ok"

\* C19: an operation that reads a missing or damaged table goes on as on the
\* empty table. Startup on a damaged marker takes the last version as "" and
\* writes the marker; a broadcast on a damaged registry has no recipient; a
\* preview on a damaged registry is answered as to a non-subscriber; a preview
\* on a damaged cache generates a report; main on a damaged title history
\* drops no item
C19_DamagedReadsAsEmpty ==
    [][/\ (pc["loop"] = "startup" /\ Damaged(markerFile))
          => /\ startup'.last = NoMarker
             /\ markerFile' = Holding(versionFile.data.version)
             /\ pc'["loop"] \in {"idle", "broadcast"}
       /\ (pc["loop"] = "startup" /\ Damaged(regFile))
          => (startup'.chat_ids = <<>> /\ pc'["loop"] = "idle")
       /\ (pc["loop"] = "idle" /\ runs' # runs /\ Damaged(regFile))
          => (pc'["loop"] = "idle" /\ outcome'["loop"] = "rejected")
       /\ (pc["loop"] = "idle" /\ runs' # runs /\ ~Damaged(regFile)
             /\ outcome'["loop"] # "rejected" /\ Damaged(cacheFile))
          => (pc'["loop"] = "main" /\ outcome'["loop"] = "running")
       /\ (pc["loop"] = "main" /\ Damaged(titlesFile))
          => (pc'["loop"] = "generate_report" /\ raw'["loop"] = fetched'["loop"])
      ]_vars

\* a preview on a damaged cache and a damaged title history has fetched its
\* items, kept them all and goes on to generate the report
C19_Witness ==
    /\ pc["loop"] = "generate_report"
    /\ cacheFile.st = "corrupt"
    /\ titlesFile.st = "corrupt"
    /\ startup.last = NoMarker
    /\ fetched["loop"] # <<>>
    /\ raw["loop"] = fetched["loop"]

(***************************************************************************)
(* Claim C20: the email channel in the failure accounting                  *)
(***************************************************************************)
\* C20: a run that delivered and whose email transmission failed does not end
\* as fully successful
C20_EmailFailureCounts ==
    \A c \in Processes :
        (pc[c] = "main_end" /\ summary[c] # <<>> /\ emails[c] = "failed")
            => outcome[c] # "return"

(***************************************************************************)
(* Claim C21: what subscribe and unsubscribe return and change (a call     *)
(* that runs with no other registry operation in between)                  *)
(***************************************************************************)
\* C21: subscribe(id) on a registry without id goes on to save the registry
\* plus one entry for id and returns True; on a registry with id it returns
\* False and leaves the file as it is. unsubscribe(id) on a registry with id
\* goes on to save the registry minus the entry of id and returns True; on a
\* registry without id it returns False and leaves the file as it is. What is
\* saved is what the call prepared, so the entries of all other ids, and on
\* False the entry of id with its metadata, are as before
C21_RegistryContract ==
    [][\A c \in Callers :
          LET before == Load(regFile, NoRegistry)
              key == Str(op'[c].id)
          IN  /\ (pc[c] = "idle" /\ pc'[c] = "_save" /\ op'[c].kind = "subscribe")
                 => /\ ~HasKey(before, key)
                    /\ Range(before) \subseteq Range(data'[c])
                    /\ \E e \in Range(data'[c]) :
                          /\ e.chat_id = key
                          /\ Range(data'[c]) = Range(before) \cup {e}
                    /\ Len(data'[c]) = Len(before) + 1
              /\ (pc[c] = "idle" /\ pc'[c] = "_save" /\ op'[c].kind = "unsubscribe")
                 => /\ HasKey(before, key)
                    /\ Range(data'[c]) = {e \in Range(before) : e.chat_id # key}
                    /\ Len(data'[c]) = Len(before) - 1
              /\ (NoCallerBusy /\ NoCallerBusy')
                 => /\ regFile' = regFile
                    /\ (ret'[c] # ret[c] => ~ret'[c])
                    /\ \A u \in 1..NumRecipients : lastOp'[u] # lastOp[u] =>
                          /\ (lastOp'[u] = "subscribe" => HasKey(before, Str(u)))
                          /\ (lastOp'[u] = "unsubscribe" => ~HasKey(before, Str(u)))
              /\ (pc[c] = "_save" /\ pc'[c] # "_save")
                 => (pc'[c] = "_save_dump" /\ data'[c] = data[c] /\ op'[c] = op[c])
              /\ (pc[c] = "_save_dump" /\ pc'[c] # "_save_dump")
                 => /\ pc'[c] = "idle"
                    /\ ret'[c]
                    /\ regFile' = Holding(data[c])
      ]_vars

\* of a registry of two, one caller was refused a second subscription of id 1
\* under another name, the other removed id 2: the entry of id 1 is as it was
C21_Witness ==
    /\ NoCallerBusy
    /\ ret["w1"]
    /\ ~ret["w2"]
    /\ lastOp[1] = "subscribe"
    /\ lastOp[2] = "unsubscribe"
    /\ regFile = Holding(<<[chat_id |-> "1", username |-> "ann"]>>)

(***************************************************************************)
(* Claim C22: --test                                                       *)
(***************************************************************************)
\* C22: a run in test mode attempts no delivery: no chunk is sent to any chat
\* and nothing is handed to the email channel
C22_TestModeSendsNothing ==
    env.test =>
        \A c \in Processes : attempts[c] = <<>> /\ emails[c] = "none"

(***************************************************************************)
(* Claim C23: the size of the title history                                *)
(***************************************************************************)
\* C23: the title history on disk never holds more than 80 titles, and what a
\* run saves are the first 80 of its titles
C23_HistoryBounded ==
    /\ Len(Load(titlesFile, NoTitles)) <= 80
    /\ \A c \in Ctx : pc[c] = "email" =>
          \A k \in 1..Len(Load(titlesFile, NoTitles)) :
              Load(titlesFile, NoTitles)[k] = TitleNo(k)

\* a run has saved a title history that is exactly at the cap
C23_Witness ==
    /\ pc["cli"] = "email"
    /\ titlesFile.st = "ok"
    /\ Len(titlesFile.data) = 80

(***************************************************************************)
(* Claim C24: what a run that stops at any point leaves on disk            *)
(***************************************************************************)
\* the report cache is as it was before the run (none, or the earlier report)
CacheOld ==
    cacheFile \in {NoFile(NoCache),
                   Holding([generated_at |-> 0, report |-> ReportShort])}

\* the report cache holds the report of a generation of this run
CacheNew == cacheFile.st = "ok" /\ cacheFile.data.generated_at >= 1

\* the title history is as it was before the run
HistoryOld == titlesFile \in {NoFile(NoTitles), Holding(<<TitleAI>>)}

\* the title history was written by this run
HistoryNew == titlesFile.st = "ok" /\ ~HistoryOld

\* C24: at every point of a run the two tables on disk are both old, or the
\* cache is new and the history old, or both are new
C24_CacheBeforeHistory ==
    \/ CacheOld /\ HistoryOld
    \/ CacheNew /\ HistoryOld
    \/ CacheNew /\ HistoryNew

(***************************************************************************)
(* Claim C25: the number of chunks                                         *)
(***************************************************************************)
\* C25: the chunks are as few as line-aligned chunks can be: no two adjacent
\* chunks joined by a line break fit in max_len, and no chunk of several is
\* empty (an empty chunk could be left out)
C25_FewestChunks ==
    \A c \in Ctx : Chunked(c) =>
        /\ \A k \in 1..(Len(chunks[c]) - 1) :
              Len(chunks[c][k]) + 1 + Len(chunks[c][k + 1]) > max_len[c]
        /\ Len(chunks[c]) >= 2 => \A k \in 1..Len(chunks[c]) : chunks[c][k] # <<>>

(***************************************************************************)
(* Claim C26: the order of the attempts of send_telegram                   *)
(***************************************************************************)
\* C26: the first attempt is chunk 1 to the first recipient; after chunk i to
\* a recipient comes chunk i + 1 to the same recipient, whatever the result
\* of chunk i, and after the last chunk to a recipient comes chunk 1 to the
\* next recipient of the list; every attempt has its result recorded
C26_ChunkOrder ==
    \A c \in Ctx :
        LET a == attempts[c]
            n == Len(chunks[c])
        IN  /\ Len(results[c]) = Len(a)
            /\ a # <<>> => a[1] = <<target[c][1], 1>>
            /\ \A k \in 1..(Len(a) - 1) :
                  \/ /\ a[k][2] < n
                     /\ a[k + 1] = <<a[k][1], a[k][2] + 1>>
                  \/ /\ a[k][2] = n
                     /\ a[k + 1][2] = 1
                     /\ \E i \in 1..(Len(target[c]) - 1) :
                           target[c][i] = a[k][1] /\ target[c][i + 1] = a[k + 1][1]

\* two recipients, three chunks: the first chunk to each recipient failed and
\* the later chunks were sent all the same
C26_Witness ==
    \E c \in Processes :
        /\ pc[c] = "sent"
        /\ Len(target[c]) = 2
        /\ Len(chunks[c]) = 3
        /\ results[c] = <<FALSE, TRUE, TRUE, FALSE, TRUE, TRUE>>

(***************************************************************************)
(* Claim C27: the marker write and restarts                                *)
(***************************************************************************)
\* _on_startup has run to its decision
StartupDecided == pc["loop"] = "startup" /\ pc'["loop"] \in {"idle", "broadcast"}

\* C27 as stated: every start writes the marker, so after the decision of
\* _on_startup the marker file is there
C27_MarkerWrittenOnEveryStart ==
    [][StartupDecided => markerFile'.st = "ok"]_vars

\* C27 amended: a start in serving mode whose descriptor is readable and not
\* empty writes the marker once, with the version of the descriptor, before the
\* decision and before any send, and no later step of that lifetime writes it;
\* a start whose descriptor cannot be read or is empty leaves the marker as it
\* is and sends nothing; and a lifetime that follows one stopped while
\* broadcasting sends no notice of the version that one sent a notice for
C27_MarkerBeforeBroadcast ==
    [][/\ (StartupDecided /\ ~_load_version_info.empty)
          => /\ markerFile' = Holding(_load_version_info.version)
             /\ bcast' = <<>>
       /\ (StartupDecided /\ _load_version_info.empty)
          => /\ markerFile' = markerFile
             /\ pc'["loop"] = "idle"
             /\ bcast' = <<>>
       /\ (pc["loop"] \in {"broadcast", "idle"} /\ pc'["loop"] # "boot")
          => markerFile' = markerFile
       /\ bcast' # <<>> => startup'.current \notin prior'.announced
      ]_vars

\* the process was stopped after the notice of version 1.1 went to the first
\* of three subscribers; started again it found the marker at 1.1, sent
\* nothing and serves
C27_Witness ==
    /\ prior.boots = 1
    /\ prior.announced = {V2}
    /\ pc["loop"] = "idle"
    /\ startup.current = V2
    /\ startup.last = V2
    /\ markerFile = Holding(V2)
    /\ Len(get_chat_ids) = 3
    /\ bcast = <<>>

(***************************************************************************)
(* Claim C28: failures during the version broadcast                        *)
(***************************************************************************)
\* C28: while broadcasting, the sends made are to the first subscribers of the
\* list, one each, whatever their results; _on_startup returns from a
\* broadcast only when every subscriber of the registry has had its one send,
\* and the process goes on to serve
C28_BroadcastFailuresIsolated ==
    /\ pc["loop"] = "broadcast" =>
          /\ Len(bcast) <= Len(startup.chat_ids)
          /\ \A k \in 1..Len(bcast) : bcast[k].chat_id = startup.chat_ids[k]
    /\ (pc["loop"] = "idle" /\ bcast # <<>>) =>
          /\ Len(bcast) = Len(get_chat_ids)
          /\ \A k \in 1..Len(bcast) : bcast[k].chat_id = get_chat_ids[k]
          /\ exitStatus["loop"] = -1
          /\ pc["sched"] = "idle"

\* the sends to the first and to the last of three subscribers failed, the one
\* between them went through, and the bot serves
C28_Witness ==
    /\ pc["loop"] = "idle"
    /\ Len(bcast) = 3
    /\ ~bcast[1].ok
    /\ bcast[2].ok
    /\ ~bcast[3].ok
    /\ exitStatus["loop"] = -1

(***************************************************************************)
(* Claim C29: reads of a table while it is being written                   *)
(***************************************************************************)
\* the file was opened for writing and its content is not written yet
PartlyWritten(file) == file.st = "truncated"

\* C29: no read of a table happens while a write of that table is partly
\* applied: a /preview does not read the registry or, as a subscriber, the
\* report cache, _weekly_job does not read the registry, and main does not
\* read the title history while the file is opened for writing and still empty
C29_NoPartialRead ==
    [][/\ (pc["loop"] = "idle" /\ outcome'["loop"] # "none")
          => /\ ~PartlyWritten(regFile)
             /\ (outcome'["loop"] # "rejected" => ~PartlyWritten(cacheFile))
       /\ (pc["sched"] = "weekly_job" /\ pc'["sched"] # "weekly_job")
          => ~PartlyWritten(regFile)
       /\ \A c \in Threads :
             (pc[c] = "main" /\ pc'[c] = "generate_report")
                => ~PartlyWritten(titlesFile)
      ]_vars

(***************************************************************************)
(* Claim C30: a preview during the fan-out of a scheduled run              *)
(***************************************************************************)
\* the scheduled run has written both tables and is delivering its report
InFanout(c) == pc[c] \in {"email", "send_telegram", "send_loop", "sent"}

\* C30: a /preview of a subscriber handled while the scheduled run is in its
\* fan-out is served from the cache with the report of that run, at once and
\* without a call of generate_report
C30_PreviewDuringFanout ==
    [][(/\ InFanout("sched")
        /\ pc["loop"] = "idle"
        /\ outcome'["loop"] \notin {"none", "rejected"})
          => /\ outcome'["loop"] = "cached"
             /\ pc'["loop"] = "send_telegram"
             /\ report'["loop"] = report["sched"]
             /\ genCalls' = genCalls
      ]_vars

(***************************************************************************)
(* Claim C31: the poll loop after a failed run                             *)
(***************************************************************************)
\* the run of the job in c ended in a failure: the configuration check, the
\* generation, or a delivery that was not complete
RunFailed(c) == pc[c] = "main_end" /\ outcome[c] \in {"exit1", "raised"}

\* C31: a scheduled job that ended in a failure returns to the poll loop, the
\* process stays alive, and the loop takes the next job that comes due; the
\* run itself made at most one call of generate_report and at most one
\* attempt per recipient and chunk, and once failed it does nothing more
C31_SchedulerOutlivesFailure ==
    [][\A c \in Loops :
          /\ RunFailed(c)
             => /\ pc'[c] = "idle"
                /\ exitStatus'[c] = -1
                /\ genCalls' = genCalls
                /\ cacheFile' = cacheFile
                /\ titlesFile' = titlesFile
          /\ pc'[c] # "exited"
          /\ gens'[c] <= 1
          /\ Len(attempts'[c]) <= Len(target'[c]) * Len(chunks'[c])
          /\ (pc[c] = "idle" /\ pc'[c] # "idle") => runs' = runs + 1
      ]_vars

\* the generation of the first scheduled run failed; the loop has taken the
\* next job, whose run has made its call of generate_report
C31_Witness ==
    \E c \in Loops :
        /\ runs = 2
        /\ genCalls = 2
        /\ ~lastBody.done
        /\ pc[c] = "generating"
        /\ gens[c] = 1

(***************************************************************************)
(* Claim C32: sources that fail or are empty                               *)
(***************************************************************************)
\* the list main keeps for an answer: nothing for a source that did not
\* answer, answered what cannot be parsed, or has no item; else its items that
\* are no duplicates
KeptOf(resp) ==
    IF resp.kind \in {"unreachable", "malformed", "empty"} THEN <<>>
    ELSE SelectSeq(resp.items,
                   LAMBDA t : ~DuplicateOf(t, Load(titlesFile, NoTitles)))

\* C32: whatever the sources answer, the list kept for each source depends on
\* the answer of that source alone and is empty for a source that failed or
\* is empty; the run does not end in the collection phase, hands the lists of
\* all sources to generate_report, and does reach that call
C32_SourceFailuresIsolated ==
    /\ [](/\ pc["cli"] \in {"collect", "generate_report", "generating"}
          /\ outcome["cli"] = "none"
          /\ Len(bySource["cli"]) <= Len(responses["cli"])
          /\ \A i \in 1..Len(bySource["cli"]) :
                bySource["cli"][i] = KeptOf(responses["cli"][i])
          /\ pc["cli"] # "collect" =>
                /\ Len(bySource["cli"]) = NumSources
                /\ raw["cli"] = Flatten(bySource["cli"]))
    /\ <>(pc["cli"] = "generating")

\* the first source did not answer and the last answered what cannot be
\* parsed: the item of the source between them went to the generation
C32_Witness ==
    /\ pc["cli"] = "generating"
    /\ responses["cli"][1].kind = "unreachable"
    /\ responses["cli"][2].kind = "items"
    /\ responses["cli"][3].kind = "malformed"
    /\ raw["cli"] = <<<<"b">>>>

(***************************************************************************)
(* Claim C33: the weekly slots setup_schedule registers                    *)
(***************************************************************************)
\* the first slot as the environment gives it, with the defaults of the
\* module, names a day of the week and a time of day
FirstSlotValid ==
    /\ Getenv(slots.day1, "monday") \in DAY_MAP
    /\ Getenv(slots.time1, "08:00") \in {"08:00", "18:30"}

\* the second slot is set and names a day of the week and a time of day
SecondSlotValid ==
    /\ slots.day2 \in DAY_MAP
    /\ Getenv(slots.time2, "08:00") \in {"08:00", "18:30"}

\* the scheduler has left setup_schedule and polls
Polling == pc["runsched"] = "idle"

\* the part of C33 about the outcome of each setting: an invalid first slot
\* ends the process with status 1 and no trigger; else one trigger with the
\* second slot not set or invalid (a warning is printed for an invalid one),
\* two with a valid second slot
SlotOutcomes ==
    /\ ~FirstSlotValid =>
          /\ pc["runsched"] \in {"setup", "exited"}
          /\ triggers = <<>>
          /\ pc["runsched"] = "exited" =>
                exitStatus["runsched"] = 1 /\ Len(notices) = 1
    /\ FirstSlotValid => pc["runsched"] # "exited"
    /\ Polling /\ SecondSlotValid =>
          /\ Len(triggers) = 2
          /\ triggers[2] = <<slots.day2, Getenv(slots.time2, "08:00")>>
          /\ notices = <<>>
    /\ Polling /\ ~SecondSlotValid =>
          /\ Len(triggers) = 1
          /\ Len(notices) = (IF slots.day2 \in {NotSet, ""} THEN 0 ELSE 1)
    /\ Polling =>
          triggers[1] = <<Getenv(slots.day1, "monday"), Getenv(slots.time1, "08:00")>>

\* C33 as stated: the outcomes above, and a scheduler whose environment sets
\* no slot polls with zero weekly triggers
C33_ZeroOneOrTwoSlots ==
    /\ SlotOutcomes
    /\ Polling /\ slots.day1 = NotSet /\ slots.day2 = NotSet => Len(triggers) = 0

\* C33, amended: the outcomes above, and a polling scheduler has one or two
\* weekly triggers, never zero: with no slot set it has the default first slot
C33_OneOrTwoSlots ==
    /\ SlotOutcomes
    /\ Polling => Len(triggers) \in {1, 2}
    /\ Polling /\ slots.day1 = NotSet /\ slots.time1 = NotSet /\ slots.day2 = NotSet =>
          triggers = << <<"monday", "08:00">> >>

\* the second slot names no day of the week: the scheduler polls with the
\* first slot alone and has printed one warning
C33_Witness ==
    /\ Polling
    /\ slots.day1 = "friday"
    /\ slots.day2 = "funday"
    /\ triggers = << <<"friday", "08:00">> >>
    /\ notices = <<"warn_day_2">>

(***************************************************************************)
(* Claim C34: a preview asked for by a chat that is not subscribed         *)
(***************************************************************************)
\* the registry on disk has an entry for chat u
InRegistry(u) ==
    \E i \in 1..Len(Load(regFile, NoRegistry)) :
        Load(regFile, NoRegistry)[i].chat_id = Str(u)

\* the event loop takes up a /preview command
PreviewStep == pc["loop"] = "idle" /\ runs' = runs + 1

\* C34: a preview is rejected exactly when the chat that asks is not in the
\* registry, and a rejected preview ends at once: the cache is not read into a
\* report, generate_report is not called, nothing is sent, and the cache,
\* the history and the registry stay as they are
C34_PreviewRejected ==
    [][PreviewStep =>
         /\ (\A u \in 1..NumRecipients : ~InRegistry(u)) =>
                outcome'["loop"] = "rejected"
         /\ outcome'["loop"] # "rejected" =>
                \E u \in 1..NumRecipients :
                    InRegistry(u) /\ target'["loop"] = <<Str(u)>>
         /\ outcome'["loop"] = "rejected" =>
                /\ \E u \in 1..NumRecipients : ~InRegistry(u)
                /\ pc'["loop"] = "idle"
                /\ report'["loop"] = report["loop"]
                /\ gens'["loop"] = 0
                /\ genCalls' = genCalls
                /\ attempts'["loop"] = <<>>
                /\ emails'["loop"] = "none"
                /\ cacheFile' = cacheFile
                /\ titlesFile' = titlesFile
                /\ regFile' = regFile
                /\ versionFile' = versionFile
                /\ markerFile' = markerFile]_vars

\* a chat that is not subscribed was turned away while a report lay in the
\* cache and another chat is subscribed
C34_Witness ==
    /\ outcome["loop"] = "rejected"
    /\ pc["loop"] = "idle"
    /\ runs = 1
    /\ cacheFile = Holding([generated_at |-> 0, report |-> ReportShort])
    /\ InRegistry(1)
    /\ ~InRegistry(NumRecipients)
    /\ attempts["loop"] = <<>>
    /\ genCalls = 0

(***************************************************************************)
(* Claim C35: the cache after a run whose delivery failed                  *)
(***************************************************************************)
\* the run in c has sent every chunk and none was accepted
DeliveryFailed(c) ==
    /\ pc[c] = "main_end"
    /\ results[c] # <<>>
    /\ OkCount(results[c]) = 0

\* C35: the cache holds the report of a run from before the first delivery
\* attempt of that run and still holds it when every delivery has failed; the
\* next /preview of a subscriber is served that report from the cache, with
\* no call of generate_report
C35_CacheSurvivesFailedDelivery ==
    [][/\ attempts'["loop"] # <<>> =>
             /\ cacheFile'.st = "ok"
             /\ cacheFile'.data.report = report'["loop"]
       /\ DeliveryFailed("loop") =>
             /\ cacheFile = Holding([generated_at |-> genCalls,
                                     report |-> lastBody.body])
             /\ cacheFile' = cacheFile
       /\ (PreviewStep /\ lastBody.done /\ outcome'["loop"] # "rejected") =>
             /\ outcome'["loop"] = "cached"
             /\ report'["loop"] = lastBody.body
             /\ genCalls' = genCalls
      ]_vars

(***************************************************************************)
(* Claim C36: a preview that has to generate                               *)
(***************************************************************************)
\* the one call of generate_report made so far is that of the preview
PreviewAlone == genCalls = 1 /\ gens["loop"] = 1

\* the generation of the preview succeeded; it has written the cache and the
\* history and is delivering, or has just ended
PreviewWrote ==
    /\ PreviewAlone
    /\ lastBody.done
    /\ pc["loop"] \in {"email", "send_telegram", "send_loop", "sent", "main_end"}

\* C36: a preview that finds no cache and generates writes its report to the
\* cache and the titles that passed its filter to the history, and the files
\* stay so while it delivers; a scheduled run that starts then keeps exactly
\* the items that are no duplicates of the titles the preview recorded
C36_PreviewRecordsHistory ==
    [][/\ (PreviewAlone /\ pc["loop"] = "cache_dump" /\ pc'["loop"] # "cache_dump") =>
             cacheFile' = Holding([generated_at |-> 1, report |-> report["loop"]])
       /\ (PreviewAlone /\ pc["loop"] = "titles_dump" /\ pc'["loop"] # "titles_dump") =>
             /\ titlesFile' = Holding(raw["loop"])
             /\ \A k \in 1..Len(raw["loop"]) :
                   \E j \in 1..Len(fetched["loop"]) : raw["loop"][k] = fetched["loop"][j]
       /\ PreviewWrote =>
             /\ cacheFile = Holding([generated_at |-> 1, report |-> lastBody.body])
             /\ titlesFile.st = "ok"
             /\ PreviewWrote' => cacheFile' = cacheFile /\ titlesFile' = titlesFile
       /\ (PreviewWrote /\ pc["sched"] = "main" /\ pc'["sched"] = "generate_report") =>
             raw'["sched"] =
                 SelectSeq(fetched'["sched"],
                           LAMBDA t : ~DuplicateOf(t, titlesFile.data))
      ]_vars

\* the preview found no cache and no history, recorded both titles it fetched
\* and is still delivering; the scheduled run that started meanwhile fetched
\* the same two items and kept none
C36_Witness ==
    /\ PreviewWrote
    /\ pc["loop"] = "send_loop"
    /\ outcome["loop"] = "running"
    /\ titlesFile = Holding(<<TitleAiNews, TitleAI>>)
    /\ pc["sched"] = "generate_report"
    /\ fetched["sched"] = <<TitleAiNews, TitleAI>>
    /\ raw["sched"] = <<>>

(***************************************************************************)
(* Claim C37: what a run leaves in the history                             *)
(***************************************************************************)
\* the titles of the items the sources gave to the run in c
FetchedTitles(c) ==
    UNION {Range(responses[c][i].items) : i \in 1..Len(responses[c])}

\* the titles of the items the filter of the run in c let pass
KeptTitles(c) == Range(Flatten(bySource[c]))

\* the titles the run in c suppressed as duplicates
Suppressed(c) == FetchedTitles(c) \ KeptTitles(c)

\* C37: the list a run is about to store has only titles of items of that run
\* that are no duplicates of the stored history, has no title the filter
\* suppressed and none of the stored titles, and the file then holds that list
\* and nothing else; in the next run a title the earlier run suppressed is kept
\* unless it is a duplicate of a title the earlier run stored
C37_HistoryHoldsOnlyPassed ==
    [][/\ \A c \in Processes :
             /\ (pc[c] = "save_prev_titles" /\ pc'[c] = "titles_dump") =>
                   /\ \A k \in 1..Len(raw[c]) :
                         /\ raw[c][k] \in FetchedTitles(c)
                         /\ ~DuplicateOf(raw[c][k], Load(titlesFile, NoTitles))
                   /\ \A x \in FetchedTitles(c) :
                         DuplicateOf(x, Load(titlesFile, NoTitles)) =>
                             x \notin Range(raw[c])
                   /\ \A j \in 1..Len(Load(titlesFile, NoTitles)) :
                         Load(titlesFile, NoTitles)[j] \notin Range(raw[c])
                   /\ Range(raw[c]) = KeptTitles(c)
             /\ (pc[c] = "titles_dump" /\ pc'[c] # "titles_dump") =>
                   titlesFile' = Holding(raw[c])
       /\ (/\ "titles" \in wrote["runsched"]
           /\ pc["runbot"] = "collect"
           /\ pc'["runbot"] = "generate_report") =>
             /\ titlesFile = Holding(Flatten(bySource["runsched"]))
             /\ \A x \in Suppressed("runsched") :
                   /\ x \notin Range(titlesFile.data)
                   /\ x \in FetchedTitles("runbot") =>
                         (x \in Range(raw'["runbot"]) <=>
                              ~DuplicateOf(x, Flatten(bySource["runsched"])))
      ]_vars

\* the first run suppressed the title that was in the history and stored
\* another; the second run was given the suppressed title again and kept it
C37_Witness ==
    /\ "titles" \in wrote["runsched"]
    /\ pc["runsched"] = "exited"
    /\ TitleAI \in Suppressed("runsched")
    /\ titlesFile = Holding(<< <<"b">> >>)
    /\ pc["runbot"] = "generate_report"
    /\ TitleAI \in Range(raw["runbot"])

(***************************************************************************)
(* Claim C38: empty chunks                                                 *)
(***************************************************************************)
\* C38: for a report that is not empty no chunk of _split_chunks is the empty
\* text, so no call of _send_one_chunk is made with an empty message
C38_NoEmptyChunk ==
    \A c \in Ctx : (Chunked(c) /\ report[c] # <<>>) =>
        /\ \A k \in 1..Len(chunks[c]) : Len(chunks[c][k]) > 0
        /\ \A a \in 1..Len(attempts[c]) : Len(chunks[c][attempts[c][a][2]]) > 0

=============================================================================
